---- MODULE Spec2Model ----
(***************************************************************************)
(* Verification model of the video-common UDF loader:                      *)
(*   - Frame (src/UDFLoader/src/frame.cpp): planes, meta-data envelope,    *)
(*     set_data / set_encoding / encode / serialize / deserialize and the  *)
(*     ownership of the pixel buffers;                                     *)
(*   - UdfManager / UdfWorker (src/libs/UDFLoader/src/udf_manager.cpp):    *)
(*     dispatch thread, worker pool and the UDF chain.                     *)
(* Spec is the Frame life cycle, SpecEdge one call on a fresh frame with   *)
(* the arguments and envelopes at the edges, SpecMgr the manager,          *)
(* SpecMgrFair the manager under fair scheduling, SpecPipeline a started   *)
(* manager that is not stopped and SpecPipelineFair the same under fair    *)
(* scheduling, SpecCtor the constructor of the manager, SpecDtor the       *)
(* manager to the end of its destructor, SpecRaise the pipeline with UDFs  *)
(* that raise, SpecChain the pipeline with process() calls that take time, *)
(* SpecPy a call of PythonUdfHandle::process                               *)
(* (src/UDFLoader/src/python_udf_handle.cpp and                            *)
(* src/libs/UDFLoader/src/python_udf_handle.cpp), SpecPyOutput what that   *)
(* call does with the output of the UDF, SpecNative a call of              *)
(* NativeUdfHandle::process (src/libs/UDFLoader/src/native_udf_handle.cpp),*)
(* SpecOrder the pipeline over a pool of one worker or more, SpecFailed a  *)
(* serialize() that fails part way and the calls made afterwards,          *)
(* SpecParams the per-plane parameters of frames of up to three planes.    *)
(***************************************************************************)
EXTENDS Integers, Sequences, FiniteSets, TLC

VARIABLES
    objs,        \* heap of buffer owners (TestFrame, cv::Mat, vector, wire bytes)
    frames,      \* the Frame objects created so far; the last one is in use
    env,         \* the message envelope (m_meta_data / m_msg of the frames)
    crashed,     \* "" while the process runs, else what brought it down
    ub,          \* undefined behaviour was executed (out-of-bounds write, bad cast)
    exc,         \* what the last call threw ("" when it returned)
    ret,         \* what the last call returned
    lastOp,      \* the last operation called
    nops,        \* number of mutating calls made so far
    snap,        \* the planes as the accessors reported them before serialize()
    wire,        \* the envelope as it was handed to Frame(msg_envelope_t*)
    mgr          \* the UdfManager, its dispatch thread, pool and frames

vars == <<objs, frames, env, crashed, ub, exc, ret, lastOp, nops, snap, wire,
          mgr>>

frameVars == <<objs, frames, env, crashed, ub, exc, ret, lastOp, nops, snap,
               wire>>

-----------------------------------------------------------------------------
\* Bounds of the model

MaxPlanes == 2
MaxOps == 1
MaxFrames == 2

\* Inputs the callers are drawn from: (width, height, channels) of an image and
\* (encode type, encode level) of a frame. Frames start as one-channel images;
\* three-channel planes come in through set_data (PlaneDims).
Dims == {<<2, 1, 1>>}
EncChoices == {<<"none", 0>>, <<"jpeg", 50>>, <<"png", 4>>, <<"jpeg", 101>>}

\* Inputs of the setters: set_encoding's (type, level), the dimensions of a
\* new plane and the encoding set_multi_frame_parameters is given
SetEncChoices == {<<"none", 0>>, <<"png", 4>>, <<"jpeg", 101>>}
PlaneDims == {<<3, 1, 3>>}
PlaneEncChoices == {<<"none", 0>>, <<"jpeg", 50>>}

-----------------------------------------------------------------------------
\* Envelope values (msg_envelope_elem_body_t): typed scalars

NoV == [t |-> "none", i |-> 0, s |-> ""]
IntV(n) == [t |-> "int", i |-> n, s |-> ""]
StrV(x) == [t |-> "str", i |-> 0, s |-> x]

EnvKeys == {"width", "height", "channels", "encoding_type", "encoding_level",
            "img_handle", "ADDED"}

DescKeys == {"width", "height", "channels", "encoding_type", "encoding_level"}

EmptyObj == [k \in DescKeys |-> NoV]

\* References held in a blob's shared block or in a Frame
NullRef == [k |-> "null", id |-> 0]
ObjRef(o) == [k |-> "obj", id |-> o]
FrameRef(f) == [k |-> "frame", id |-> f]

\* Pixel payloads. Raw pixels: image v in the layout w x h x c, n bytes. Encoded
\* bytes: fmt and lvl of the encoder, the header dimensions w, h, c, and the
\* number gen of lossy encodings the pixels have gone through.
RawPix(v, w, h, c) ==
    [fmt |-> "raw", v |-> v, gen |-> 0, w |-> w, h |-> h, c |-> c, lvl |-> 0,
     n |-> w * h * c]

NullData == [own |-> 0, pix |-> RawPix(0, 0, 0, 0)]

\* msgbus_msg_envelope_new(CT_JSON)
EnvNew ==
    [alive |-> TRUE,
     kv |-> [k \in EnvKeys |-> NoV],
     afT |-> "none", af |-> <<>>,
     blobT |-> "none", blobs |-> <<>>]

\* msgbus_msg_envelope_get(env, key, &out) == MSG_SUCCESS
EnvHas(e, key) == e.kv[key].t # "none"

\* msgbus_msg_envelope_put(env, key, elem): fails when the key already exists
EnvPutOk(e, key) == ~EnvHas(e, key)
EnvPut(e, key, val) == [e EXCEPT !.kv[key] = val]

\* msgbus_msg_envelope_remove(env, key)
EnvRemove(e, key) == [e EXCEPT !.kv[key] = NoV]

\* msgbus_msg_envelope_new_blob(data, len): the blob owns its bytes and frees
\* them with free()
NewBlob(data, len) ==
    [data |-> data, len |-> len, ptr |-> ObjRef(data.own), free |-> "free",
     owned |-> TRUE]

\* msgbus_msg_envelope_put(env, NULL, blob): the first blob is the envelope's
\* blob, a second one turns it into an array of blobs, later ones are appended
EnvPutBlob(e, blob) ==
    IF e.blobT = "none"
    THEN [e EXCEPT !.blobT = "blob", !.blobs = <<blob>>]
    ELSE [e EXCEPT !.blobT = "array", !.blobs = Append(e.blobs, blob)]

\* msgbus_msg_envelope_elem_array_remove_at(arr, index)
SeqRemoveAt(s, i) ==
    [j \in 1..(Len(s) - 1) |-> IF j < i THEN s[j] ELSE s[j + 1]]

-----------------------------------------------------------------------------
\* The external codec (OpenCV)

\* cv::imencode(ext, cv::Mat(h, w, CV_8UC(c), data), bytes, params): PNG is
\* lossless, every JPEG encoding loses detail
Encode(fmt, lvl, pix, w, h, c) ==
    [fmt |-> fmt, v |-> pix.v,
     gen |-> IF fmt = "jpeg" THEN pix.gen + 1 ELSE pix.gen,
     w |-> w, h |-> h, c |-> c, lvl |-> lvl,
     n |-> ((w * h * c) \div 2) + 1]

\* cv::imdecode(data, cv::IMREAD_COLOR): always a 3-channel image; empty when
\* the bytes are not an encoded image
DecodeOk(pix) == pix.fmt \in {"jpeg", "png"}
Decode(pix) ==
    [fmt |-> "raw", v |-> pix.v, gen |-> pix.gen, w |-> pix.w, h |-> pix.h,
     c |-> 3, lvl |-> 0, n |-> pix.w * pix.h * 3]

-----------------------------------------------------------------------------
\* The world the operations act on: heap, frames, envelope and call outcome

World ==
    [objs |-> objs, frames |-> frames, env |-> env, crashed |-> crashed,
     ub |-> ub, exc |-> exc, ret |-> ret]

Throw(W, msg) == [W EXCEPT !.exc = msg, !.ret = "throw"]
Return(W, r) == [W EXCEPT !.exc = "", !.ret = r]

\* new TestFrame / new cv::Mat / new std::vector<uchar> / malloc
NewId(W) == Len(W.objs) + 1
Alloc(W, kind, size) ==
    [W EXCEPT !.objs = Append(@, [kind |-> kind, freed |-> 0, size |-> size])]

\* a releaser ran on object o
Release(W, o) == [W EXCEPT !.objs[o].freed = @ + 1]

RECURSIVE CallHook(_, _, _)
RECURSIVE MsgFreeFrame(_, _)
RECURSIVE DestroyBlobs(_, _)

\* Calling a release function pointer on its argument
CallHook(W, hook, ref) ==
    IF hook = "NULL" THEN [W EXCEPT !.crashed = "null function pointer called"]
    ELSE IF hook = "msg_free_frame" THEN MsgFreeFrame(W, ref.id)
    ELSE IF ref.k = "obj" THEN Release(W, ref.id)
    ELSE W

\* msgbus_msg_envelope_elem_destroy(blob) -> owned_blob_destroy(shared)
BlobDestroy(W, blob) ==
    IF blob.owned /\ blob.free # "NULL"
    THEN CallHook(W, blob.free, blob.ptr)
    ELSE W

DestroyBlobs(W, bs) ==
    IF bs = <<>> THEN W
    ELSE DestroyBlobs(BlobDestroy(W, Head(bs)), Tail(bs))

\* Frame::msg_free_frame(void*): the release hook of the last blob. It frees
\* what the frame still owns (the blobs it saved in m_blob_ptr, or m_frame
\* through m_free_frame) and deletes the Frame.
MsgFreeFrame(W, f) ==
    LET F == W.frames[f]
        W1 == IF F.m_blob_ptr # <<>> THEN DestroyBlobs(W, F.m_blob_ptr)
              ELSE IF F.m_free_frame # "NULL"
                   THEN CallHook(W, F.m_free_frame, F.m_frame)
                   ELSE W
    IN  [W1 EXCEPT !.frames[f].deleted = @ + 1]

\* msgbus_msg_envelope_destroy(env): destroys every element, the blobs last
EnvDestroy(W) ==
    LET W1 == DestroyBlobs(W, W.env.blobs)
    IN  [W1 EXCEPT !.env.alive = FALSE, !.env.blobs = <<>>,
                   !.env.blobT = "none"]

-----------------------------------------------------------------------------
\* Frame: accessors

ThrowV == [t |-> "throw", i |-> 0, s |-> ""]

\* fetch_multi_frame_parameter(meta_data, index, key)
fetch_multi_frame_parameter(e, index, key) ==
    IF e.afT # "array" THEN ThrowV
    ELSE IF index - 1 < 0 \/ index - 1 >= Len(e.af) THEN ThrowV
    ELSE IF e.af[index][key].t = "none" THEN ThrowV
    ELSE e.af[index][key]

IntParam(F, e, index, own, key) ==
    IF index = 0 THEN IntV(own)
    ELSE LET v == fetch_multi_frame_parameter(e, index, key)
         IN  IF v.t = "int" THEN v ELSE ThrowV

get_width(F, e, index) == IntParam(F, e, index, F.m_width, "width")
get_height(F, e, index) == IntParam(F, e, index, F.m_height, "height")
get_channels(F, e, index) == IntParam(F, e, index, F.m_channels, "channels")
get_encode_level(F, e, index) ==
    IntParam(F, e, index, F.m_encode_level, "encoding_level")

get_encode_type(F, e, index) ==
    IF index = 0 THEN StrV(F.m_encode_type)
    ELSE LET v == fetch_multi_frame_parameter(e, index, "encoding_type")
         IN  IF v.t = "str" /\ v.s \in {"jpeg", "png", "none"} THEN v
             ELSE ThrowV

\* What m_data[index] is outside [0, m_num_frames): the read is outside the
\* allocation, an indeterminate pointer. The callers of get_data resolve it
\* (GetDataOutcomes).
WildData == [own |-> 0 - 1, pix |-> RawPix(0, 0, 0, 0)]

\* get_data without the test of m_serialized: C1 does not hold of it
get_data_unguarded(F, index) ==
    IF index >= 0 /\ index < Len(F.m_data) THEN F.m_data[index + 1]
    ELSE WildData

\* Frame::get_data(index): NULL once serialized, else m_data[index] with no
\* test of index
get_data(F, index) ==
    IF F.m_serialized THEN NullData
    ELSE IF index >= 0 /\ index < Len(F.m_data) THEN F.m_data[index + 1]
    ELSE WildData

get_number_of_frames(F) == F.m_num_frames

\* Frame::get_meta_data(): NULL once serialized, else the envelope
get_meta_data(F) == IF F.m_serialized THEN "NULL" ELSE "m_meta_data"

\* verify_encoding_level with the upper limits left out of the ranges: C15
\* does not hold of it
verify_encoding_level_open(encode_type, encode_level) ==
    CASE encode_type = "jpeg" -> encode_level >= 0 /\ encode_level < 100
      [] encode_type = "png" -> encode_level >= 0 /\ encode_level < 9
      [] OTHER -> TRUE

\* verify_encoding_level(encode_type, encode_level)
verify_encoding_level(encode_type, encode_level) ==
    CASE encode_type = "jpeg" -> encode_level >= 0 /\ encode_level <= 100
      [] encode_type = "png" -> encode_level >= 0 /\ encode_level <= 9
      [] OTHER -> TRUE

-----------------------------------------------------------------------------
\* Frame::set_data(frame, width, height, channels, data, free_frame, index)
\* vsize is what ((std::vector<uchar>*) frame)->size() reads.

\* "Release old data" of a frame made by the first constructor
SetDataReleaseOwn(W, f, free_frame) ==
    LET F == W.frames[f]
        W1 == CallHook(W, F.m_free_frame, F.m_frame)
    IN  [W1 EXCEPT !.frames[f].m_free_frame = free_frame]

\* The free function set_data gives the new blob of a blob array
SetDataArrayFree(F, free_frame, index) ==
    IF index = F.m_num_frames - 1 THEN free_frame ELSE "NULL"

\* The blob array after the blob at index was removed and the new one added
SetDataArrayBlobs(blobs, blob, index) ==
    Append(SeqRemoveAt(blobs, index + 1), blob)

\* "Release old data" of a deserialized frame: the surgery on the blob
SetDataReplaceBlob(W, f, frame, len, data, free_frame, index) ==
    LET F == W.frames[f]
        nb == [NewBlob(data, len) EXCEPT !.ptr = frame]
    IN  IF W.env.blobT = "blob"
        THEN LET W1 == BlobDestroy(W, W.env.blobs[1])
             IN  [W1 EXCEPT !.env.blobs =
                      <<[nb EXCEPT !.free = free_frame, !.owned = TRUE]>>]
        ELSE IF index < 0 \/ index >= Len(W.env.blobs)
        THEN Throw(W, "Failed to remove existing blob data from msg envelope")
        ELSE LET W1 == BlobDestroy(W, W.env.blobs[index + 1])
                 b == [nb EXCEPT !.free = SetDataArrayFree(F, free_frame, index)]
             IN  [W1 EXCEPT !.env.blobs =
                      SetDataArrayBlobs(W.env.blobs, b, index)]

\* "Repoint all internal data structures"
SetDataRepoint(W, f, frame, data, index) ==
    IF index >= 0 /\ index < Len(W.frames[f].m_data)
    THEN [W EXCEPT !.frames[f].m_frame = frame,
                   !.frames[f].m_data[index + 1] = data]
    ELSE [W EXCEPT !.frames[f].m_frame = frame, !.ub = TRUE]

\* The width, height and channels of plane index, in the frame and the envelope
SetDataMeta(W, f, width, height, channels, index) ==
    IF index = 0
    THEN [W EXCEPT !.frames[f].m_width = width,
                   !.frames[f].m_height = height,
                   !.frames[f].m_channels = channels,
                   !.env.kv["width"] = IntV(width),
                   !.env.kv["height"] = IntV(height),
                   !.env.kv["channels"] = IntV(channels)]
    ELSE IF W.env.afT = "none"
    THEN [Throw(W, "Failed to fetch additional_frames object") EXCEPT
              !.ub = TRUE]
    ELSE IF W.env.afT # "array"
    THEN Throw(W, "additional_frames type not an array")
    ELSE IF index - 1 < 0 \/ index - 1 >= Len(W.env.af)
    THEN [Throw(W, "Unable to fetch meta-data") EXCEPT
              !.env.afT = "destroyed", !.ub = TRUE]
    ELSE IF \E k \in {"width", "height", "channels"} :
                W.env.af[index][k].t = "none"
    THEN [Throw(W, "Failed to remove object") EXCEPT
              !.env.afT = "destroyed", !.ub = TRUE]
    ELSE [W EXCEPT !.env.af[index]["width"] = IntV(width),
                   !.env.af[index]["height"] = IntV(height),
                   !.env.af[index]["channels"] = IntV(channels)]

SetDataLen(F, width, height, channels, index, vsize) ==
    IF index = 0 /\ F.m_encode_type # "none" THEN vsize
    ELSE width * height * channels

set_data(W, f, frame, width, height, channels, data, free_frame, index, vsize) ==
    LET F == W.frames[f] IN
    IF F.m_serialized THEN Throw(W, "Cannot set data after serialization")
    ELSE
    LET W1 == IF ~F.m_msg
              THEN SetDataReleaseOwn(Return(W, "void"), f, free_frame)
              ELSE SetDataReplaceBlob(Return(W, "void"), f, frame,
                       SetDataLen(F, width, height, channels, index, vsize),
                       data, free_frame, index)
    IN  IF W1.crashed # "" \/ W1.exc # "" THEN W1
        ELSE SetDataMeta(SetDataRepoint(W1, f, frame, data, index), f,
                         width, height, channels, index)

-----------------------------------------------------------------------------
\* Frame::set_encoding(encode_type, encode_level)

\* An envelope that is given the two keys for EncodeType::NONE as well: C38
\* does not hold of it
SetEncodingMetaNone(e, encode_type, encode_level) ==
    [e EXCEPT !.kv["encoding_type"] = StrV(encode_type),
              !.kv["encoding_level"] = IntV(encode_level)]

SetEncodingMeta(e, encode_type, encode_level) ==
    IF encode_type # "none"
    THEN [e EXCEPT !.kv["encoding_type"] = StrV(encode_type),
                   !.kv["encoding_level"] = IntV(encode_level)]
    ELSE [e EXCEPT !.kv["encoding_type"] = NoV,
                   !.kv["encoding_level"] = NoV]

set_encoding(W, f, encode_type, encode_level) ==
    IF ~verify_encoding_level(encode_type, encode_level)
    THEN Throw(W, "Invalid encoding level for the encoding type")
    ELSE [Return(W, "void") EXCEPT
              !.frames[f].m_encode_type = encode_type,
              !.frames[f].m_encode_level = encode_level,
              !.env = SetEncodingMeta(W.env, encode_type, encode_level)]

\* Frame::set_multi_frame_parameters(index, width, height, channels,
\*                                   encoding_type, encoding_level)
MultiFrameObj(width, height, channels, encoding_type, encoding_level) ==
    [k \in DescKeys |->
        CASE k = "width" -> IntV(width)
          [] k = "height" -> IntV(height)
          [] k = "channels" -> IntV(channels)
          [] k = "encoding_type" -> StrV(encoding_type)
          [] OTHER -> IntV(encoding_level)]

SetMultiFrameRoot(W, f, width, height, channels, encoding_type, encoding_level) ==
    LET W1 == [W EXCEPT !.frames[f].m_width = width,
                        !.frames[f].m_height = height,
                        !.frames[f].m_channels = channels,
                        !.frames[f].m_encode_level = encoding_level]
    IN  IF encoding_type \in {"jpeg", "png"}
        THEN [Return(W1, "true") EXCEPT
                  !.frames[f].m_encode_type = encoding_type]
        ELSE Throw(W1, "Encoding type is not supported")

set_multi_frame_parameters(W, f, index, width, height, channels, encoding_type, encoding_level) ==
    IF index = 0
    THEN SetMultiFrameRoot(W, f, width, height, channels, encoding_type,
                           encoding_level)
    ELSE IF get_meta_data(W.frames[f]) = "NULL"
    THEN Throw(W, "Unable to fetch meta-data")
    ELSE IF W.env.afT # "none"
    THEN Throw(W, "Unable to put channels into meta-data")
    ELSE [Return(W, "true") EXCEPT
              !.env.afT = "array",
              !.env.af = <<MultiFrameObj(width, height, channels,
                                         encoding_type, encoding_level)>>]

-----------------------------------------------------------------------------
\* Frame::encode_frame()

\* The free function encode_frame hands to set_data for plane i
EncodeFree(F, i) ==
    IF i = 0
    THEN (IF F.m_num_frames > 1 THEN "NULL" ELSE "free_encoded")
    ELSE (IF i = F.m_num_frames - 1 THEN "free_encoded" ELSE "NULL")

\* One plane: encode m_data[i] into a new vector and set it as the plane's data
EncodePlane(W, f, i, fmt, lvl) ==
    LET F == W.frames[f]
        bytes == Encode(fmt, lvl, F.m_data[i + 1].pix, F.m_width, F.m_height,
                        F.m_channels)
        W1 == Alloc(W, "vector", bytes.n)
        vec == NewId(W)
    IN  set_data(W1, f, ObjRef(vec), F.m_width, F.m_height, F.m_channels,
                 [own |-> vec, pix |-> bytes], EncodeFree(F, i), i, bytes.n)

RECURSIVE EncodeFrom(_, _, _)
EncodeFrom(W, f, i) ==
    LET F == W.frames[f]
        ty == get_encode_type(F, W.env, i)
        lv == get_encode_level(F, W.env, i)
    IN  IF i >= F.m_num_frames THEN W
        ELSE IF ty.t = "throw" THEN Throw(W, "Unable to fetch encoding_type")
        ELSE IF ty.s = "none" THEN W
        ELSE IF lv.t = "throw" THEN Throw(W, "Unable to fetch encoding_level")
        ELSE LET W1 == EncodePlane(W, f, i, ty.s, lv.i)
             IN  IF W1.crashed # "" \/ W1.exc # "" THEN W1
                 ELSE EncodeFrom(W1, f, i + 1)

encode_frame(W, f) == EncodeFrom(Return(W, "void"), f, 0)

-----------------------------------------------------------------------------
\* Frame::serialize()

\* Deserialized frame: the blob's free function after serialize(), for the
\* blob at position i (from 0) of num_parts
SwapFree(b, f, i, num_parts) ==
    IF i = num_parts - 1
    THEN [b EXCEPT !.ptr = FrameRef(f), !.free = "msg_free_frame",
                   !.owned = TRUE]
    ELSE [b EXCEPT !.ptr = FrameRef(f), !.free = "NULL", !.owned = FALSE]

\* m_blob_ptr after the loop: malloc(sizeof(owned_blob_t*)) is called again
\* for every blob, and the copy of blob i is written at m_blob_ptr[i]. Only
\* the write of i = 0 is inside the allocation; with more blobs the copies
\* that can be found again afterwards are none, the last one, or all of them.
BlobPtrOutcomes == {"none", "last", "all"}

SavedBlobs(blobs, u) ==
    IF Len(blobs) = 1 \/ u = "all" THEN [i \in 1..Len(blobs) |-> blobs[i]]
    ELSE IF u = "last" THEN <<blobs[Len(blobs)]>>
    ELSE <<>>

SerializeDeserialized(W, f, u) ==
    LET e == W.env
        n == Len(e.blobs)
        W1 == [W EXCEPT !.frames[f].m_serialized = TRUE]
    IN  IF e.blobT = "none"
        THEN Throw(W1, "Failed to retrieve frame blob from  msg envelope")
        ELSE [Return(W1, "m_meta_data") EXCEPT
                  !.frames[f].m_blob_ptr = SavedBlobs(e.blobs, u),
                  !.frames[f].m_msg = FALSE,
                  !.ub = (W.ub \/ n > 1),
                  !.env.blobs = [i \in 1..n |->
                                     SwapFree(e.blobs[i], f, i - 1, n)]]

\* Constructed frame: the length of the blob of plane i
SerializeLen(W, f, i) ==
    LET F == W.frames[f] IN
    IF i = 0
    THEN (IF F.m_encode_type # "none" THEN W.objs[F.m_frame.id].size
          ELSE F.m_width * F.m_height * F.m_channels)
    ELSE W.env.af[i]["width"].i * W.env.af[i]["height"].i
             * W.env.af[i]["channels"].i

\* Constructed frame: what stops the loop at plane i > 0
SerializeArrayError(e, i) ==
    IF e.afT # "array" THEN "additional_frames type not an array"
    ELSE IF i - 1 >= Len(e.af) THEN "af_arr_obj is NULL"
    ELSE IF \E k \in {"width", "height", "channels"} : e.af[i][k].t # "int"
    THEN "frame dimension is NULL"
    ELSE ""

\* Constructed frame: the free function of the blob of plane i
SerializeFree(F, i) ==
    IF i = F.m_num_frames - 1 THEN "msg_free_frame" ELSE "NULL"

SerializeBlob(W, f, i) ==
    [NewBlob(W.frames[f].m_data[i + 1], SerializeLen(W, f, i)) EXCEPT
         !.ptr = FrameRef(f), !.free = SerializeFree(W.frames[f], i)]

RECURSIVE SerializeFrom(_, _, _)
SerializeFrom(W, f, i) ==
    LET F == W.frames[f] IN
    IF i >= F.m_num_frames
    THEN [Return(W, "m_meta_data") EXCEPT !.frames[f].m_serialized = TRUE]
    ELSE IF i > 0 /\ W.env.afT = "none"
    THEN [Throw(W, "additional_frames missing") EXCEPT !.ub = TRUE]
    ELSE IF i > 0 /\ SerializeArrayError(W.env, i) # ""
    THEN Throw(W, SerializeArrayError(W.env, i))
    ELSE SerializeFrom(
             [W EXCEPT !.env = EnvPutBlob(W.env, SerializeBlob(W, f, i))],
             f, i + 1)

\* u is what the out-of-bounds writes of m_blob_ptr leave behind
serialize(W, f, u) ==
    LET F == W.frames[f] IN
    IF F.m_serialized THEN Return(W, "NULL")
    ELSE LET W1 == IF F.m_encode_type # "none" THEN encode_frame(W, f)
                   ELSE Return(W, "void")
         IN  IF W1.crashed # "" \/ W1.exc # "" THEN W1
             ELSE IF W1.frames[f].m_msg THEN SerializeDeserialized(W1, f, u)
             ELSE SerializeFrom(W1, f, 0)

-----------------------------------------------------------------------------
\* Frame: constructors and destructor

FrameRec(frame, free_frame, data, msg, width, height, channels, num_frames, encode_type, encode_level) ==
    [m_frame |-> frame, m_free_frame |-> free_frame, m_data |-> data,
     m_blob_ptr |-> <<>>, m_msg |-> msg, m_width |-> width,
     m_height |-> height, m_channels |-> channels,
     m_num_frames |-> num_frames, m_serialized |-> FALSE,
     m_encode_type |-> encode_type, m_encode_level |-> encode_level,
     deleted |-> 0, failed |-> FALSE]

\* The envelope Frame(frame, width, ...) fills
ConstructEnv(width, height, channels, encode_type, encode_level) ==
    SetEncodingMeta(
        [EnvNew EXCEPT !.kv["width"] = IntV(width),
                       !.kv["height"] = IntV(height),
                       !.kv["channels"] = IntV(channels)],
        encode_type, encode_level)

\* Frame::Frame(frame, width, height, channels, data, free_frame, num_frames,
\*              encode_type, encode_level)
Construct(W, frame, width, height, channels, data, free_frame, num_frames, encode_type, encode_level) ==
    IF free_frame = "NULL"
    THEN Throw(W, "The free_frame() method cannot be NULL")
    ELSE IF ~verify_encoding_level(encode_type, encode_level)
    THEN Throw(W, "Encode level invalid for the encoding type")
    ELSE [Return(W, "Frame") EXCEPT
              !.frames = Append(@, FrameRec(frame, free_frame, data, FALSE,
                                    width, height, channels, num_frames,
                                    encode_type, encode_level)),
              !.env = ConstructEnv(width, height, channels, encode_type,
                                   encode_level)]

\* int ind = 0; strcmp_s(dest, strlen(dest), src, &ind): the indicator after
\* the call. For an empty dest the length passed is 0, which strcmp_s refuses
\* before it compares: ind keeps the 0 it was given. Otherwise ind is 0
\* exactly when the strings are equal.
strcmp_s(dest, src) ==
    IF dest = "" THEN 0 ELSE IF dest = src THEN 0 ELSE 1

\* Frame::Frame(msg_envelope_t*): what makes the constructor throw before it
\* decodes
FromEnvelopeError(e) ==
    IF e.blobT = "none" THEN "Failed to retrieve frame blob from  msg envelope"
    ELSE IF \E k \in {"width", "height", "channels"} : e.kv[k].t # "int"
    THEN "Failed to retrieve dimension"
    ELSE IF e.kv["encoding_type"].t = "none" THEN ""
    ELSE IF e.kv["encoding_type"].t # "str"
    THEN "Encoding type must be a string"
    ELSE IF e.kv["encoding_level"].t # "int"
    THEN "Encoding level must be an integer"
    ELSE IF strcmp_s(e.kv["encoding_type"].s, "jpeg") # 0
            /\ strcmp_s(e.kv["encoding_type"].s, "png") # 0
    THEN "Unknown encoding type"
    ELSE IF ~DecodeOk(e.blobs[1].data.pix)
    THEN "Failed to decode the encoded frame"
    ELSE ""

\* The frame as the constructor has read it from the envelope
FromEnvelopeRec(e) ==
    FrameRec(NullRef, "NULL", [i \in 1..Len(e.blobs) |-> e.blobs[i].data],
             TRUE, e.kv["width"].i, e.kv["height"].i, e.kv["channels"].i,
             Len(e.blobs),
             IF e.kv["encoding_type"].t = "none" THEN "none"
             ELSE IF strcmp_s(e.kv["encoding_type"].s, "jpeg") = 0 THEN "jpeg"
             ELSE "png",
             IF e.kv["encoding_type"].t = "none" THEN 0
             ELSE e.kv["encoding_level"].i)

\* The decoded image replaces plane 0; when set_data throws, so does the
\* constructor
FromEnvelopeDecode(W, f, vsize) ==
    LET img == Decode(W.env.blobs[1].data.pix)
        W1 == Alloc(W, "cvMat", vsize)
        mat == NewId(W)
        W2 == set_data(W1, f, ObjRef(mat), img.w, img.h, img.c,
                       [own |-> mat, pix |-> img], "free_decoded", 0, vsize)
    IN  IF W2.crashed # "" THEN W2
        ELSE IF W2.exc # ""
        THEN [EnvDestroy(W2) EXCEPT !.frames = SubSeq(@, 1, f - 1)]
        ELSE [W2 EXCEPT !.ret = "Frame"]

\* A constructor that throws destroys its Serializable base, which destroys
\* the envelope it was given
FromEnvelope(W, vsize) ==
    LET e == W.env
        f == Len(W.frames) + 1
        W1 == [Return(W, "Frame") EXCEPT
                   !.frames = Append(@, FromEnvelopeRec(e))]
    IN  IF FromEnvelopeError(e) # ""
        THEN EnvDestroy(Throw(W, FromEnvelopeError(e)))
        ELSE IF e.kv["encoding_type"].t = "none" THEN W1
        ELSE FromEnvelopeDecode(W1, f, vsize)

\* Frame::~Frame(), then ~Serializable()
DeleteFrame(W, f) ==
    LET F == W.frames[f]
        W1 == IF ~F.m_serialized /\ F.m_free_frame # "NULL"
              THEN CallHook(W, F.m_free_frame, F.m_frame)
              ELSE W
        W2 == IF ~F.m_serialized /\ ~F.m_msg THEN EnvDestroy(W1) ELSE W1
        W3 == IF F.m_msg THEN EnvDestroy(W2) ELSE W2
    IN  [Return(W3, "void") EXCEPT !.frames[f].deleted = @ + 1]

-----------------------------------------------------------------------------
\* The Frame life cycle: what the callers of a Frame do with it

NoEnv == [EnvNew EXCEPT !.alive = FALSE]
NoSnap == [f |-> 0, n |-> 0, planes |-> <<>>, kv |-> EnvNew.kv]
NoOp == [op |-> "none"]
NoMgr == [on |-> FALSE]

Garbage == {0, 1000}

Cur == Len(frames)
Usable == Cur > 0 /\ frames[Cur].deleted = 0 /\ crashed = ""

\* A frame whose serialize() threw is of no more use: its owner deletes it
Intact == Usable /\ ~frames[Cur].failed

SerializeFailed(W, f) ==
    IF W.ret = "throw" THEN [W EXCEPT !.frames[f].failed = TRUE] ELSE W

\* What the accessors report of frame f
Planes(F, e) ==
    [i \in 1..F.m_num_frames |->
        [w |-> get_width(F, e, i - 1), h |-> get_height(F, e, i - 1),
         c |-> get_channels(F, e, i - 1), ty |-> get_encode_type(F, e, i - 1),
         data |-> get_data(F, i - 1)]]

Snapshot(f) ==
    [f |-> f, n |-> get_number_of_frames(frames[f]),
     planes |-> Planes(frames[f], env), kv |-> env.kv]

Commit(W) ==
    /\ objs' = W.objs
    /\ frames' = W.frames
    /\ env' = W.env
    /\ crashed' = W.crashed
    /\ ub' = W.ub
    /\ exc' = W.exc
    /\ ret' = W.ret

\* The call's outcome: a call that wrote outside an allocation either goes on
\* or brings the process down
Outcome(W) ==
    \E c \in (IF W.ub /\ ~ub /\ W.crashed = ""
              THEN {"", "memory corrupted"} ELSE {W.crashed}) :
        Commit([W EXCEPT !.crashed = c])

Init ==
    /\ objs = <<>>
    /\ frames = <<>>
    /\ env = NoEnv
    /\ crashed = ""
    /\ ub = FALSE
    /\ exc = ""
    /\ ret = ""
    /\ lastOp = NoOp
    /\ nops = 0
    /\ snap = NoSnap
    /\ wire = NoEnv
    /\ mgr = NoMgr

\* The planes an ingestor hands to the first constructor: one owner object
\* (the TestFrame of the tests) and one buffer per plane
IngestData(o, n, d) ==
    [i \in 1..n |-> [own |-> o, pix |-> RawPix(i, d[1], d[2], d[3])]]

\* new Frame(frame, width, height, channels, data, free_frame, num_frames,
\*           encode_type, encode_level)
NewFrame ==
    /\ frames = <<>> /\ objs = <<>> /\ ~env.alive
    /\ \E d \in Dims, n \in 1..MaxPlanes, ec \in EncChoices,
          fr \in {"user", "NULL"} :
          LET W1 == Alloc(World, "TestFrame", 0 - 1)
          IN  Commit(Construct(W1, ObjRef(1), d[1], d[2], d[3],
                               IngestData(1, n, d), fr, n, ec[1], ec[2]))
    /\ lastOp' = [op |-> "Frame"]
    /\ UNCHANGED <<nops, snap, wire, mgr>>

\* The message bus delivers an envelope: n planes of dimensions d, encoded
\* with ec or raw, each blob owning its malloc'ed bytes
WirePix(i, d, ec) ==
    IF ec[1] = "none" THEN RawPix(i, d[1], d[2], d[3])
    ELSE Encode(ec[1], ec[2], RawPix(i, d[1], d[2], d[3]), d[1], d[2], d[3])

WireObj(d, ec) ==
    [k \in DescKeys |->
        CASE k = "width" -> IntV(d[1])
          [] k = "height" -> IntV(d[2])
          [] k = "channels" -> IntV(d[3])
          [] k = "encoding_type" -> IF ec[1] = "none" THEN NoV ELSE StrV(ec[1])
          [] OTHER -> IF ec[1] = "none" THEN NoV ELSE IntV(ec[2])]

WireEnv(n, d, ec) ==
    LET e0 == [ConstructEnv(d[1], d[2], d[3], ec[1], ec[2]) EXCEPT
                   !.kv["img_handle"] = StrV("img-handle-test"),
                   !.afT = IF n > 1 THEN "array" ELSE "none",
                   !.af = [i \in 1..(n - 1) |-> WireObj(d, ec)]]
    IN  [e0 EXCEPT !.blobT = IF n > 1 THEN "array" ELSE "blob",
                   !.blobs = [i \in 1..n |->
                       NewBlob([own |-> i, pix |-> WirePix(i, d, ec)],
                               WirePix(i, d, ec).n)]]

Receive ==
    /\ frames = <<>> /\ objs = <<>> /\ ~env.alive
    /\ \E d \in Dims, n \in 1..MaxPlanes,
          ec \in {c \in EncChoices : verify_encoding_level(c[1], c[2])} :
          /\ objs' = [i \in 1..n |->
                         [kind |-> "wire", freed |-> 0, size |-> 0 - 1]]
          /\ env' = WireEnv(n, d, ec)
    /\ lastOp' = [op |-> "receive"]
    /\ UNCHANGED <<frames, crashed, ub, exc, ret, nops, snap, wire, mgr>>

\* new Frame(msg): on a received envelope, or on the envelope serialize()
\* returned
Deserialize ==
    /\ crashed = "" /\ env.alive /\ Cur < MaxFrames
    /\ Cur > 0 => (frames[Cur].m_serialized /\ ~frames[Cur].failed
                      /\ frames[Cur].deleted = 0)
    /\ \E g \in IF env.kv["encoding_type"].t = "none" THEN {0} ELSE Garbage :
          Outcome(FromEnvelope(World, g))
    /\ lastOp' = [op |-> "Frame(msg)"]
    /\ wire' = env
    /\ UNCHANGED <<nops, snap, mgr>>

\* frame->set_data(new cv::Mat, width, height, channels, mat->data, free_cv_frame, index)
\* by a UDF handle or a test: the first plane, the last plane, or one past it.
\* A caller whose set_data threw before the frame took the cv::Mat deletes it.
CallerCleanup(W, f, mat) ==
    IF W.ret = "throw" /\ W.frames[f].m_frame # ObjRef(mat)
    THEN Release(W, mat)
    ELSE W

SetData ==
    /\ Intact /\ nops < MaxOps
    /\ \E index \in {0, frames[Cur].m_num_frames - 1, frames[Cur].m_num_frames},
          d \in PlaneDims, g \in Garbage :
          /\ (g # 0) => (frames[Cur].m_msg /\ index = 0
                           /\ frames[Cur].m_encode_type # "none")
          /\ LET W1 == Alloc(World, "cvMat", g)
                 mat == NewId(World)
                 pix == RawPix(10 + mat, d[1], d[2], d[3])
             IN  Outcome(CallerCleanup(
                     set_data(W1, Cur, ObjRef(mat), d[1], d[2], d[3],
                              [own |-> mat, pix |-> pix], "user", index, g),
                     Cur, mat))
          /\ lastOp' = [op |-> "set_data"]
    /\ nops' = nops + 1
    /\ UNCHANGED <<snap, wire, mgr>>

\* frame->set_encoding(encode_type, encode_level)
SetEncoding ==
    /\ Intact /\ nops < MaxOps
    /\ \E ec \in SetEncChoices : Commit(set_encoding(World, Cur, ec[1], ec[2]))
    /\ lastOp' = [op |-> "set_encoding"]
    /\ nops' = nops + 1
    /\ UNCHANGED <<snap, wire, mgr>>

\* frame->set_multi_frame_parameters(index, width, height, channels, type, level)
SetMultiFrameParameters ==
    /\ Intact /\ nops < MaxOps
    /\ \E index \in {0, 1}, d \in PlaneDims,
          ec \in PlaneEncChoices :
          /\ Commit(set_multi_frame_parameters(World, Cur, index, d[1], d[2],
                                               d[3], ec[1], ec[2]))
          /\ lastOp' = [op |-> "set_multi_frame_parameters"]
    /\ nops' = nops + 1
    /\ UNCHANGED <<snap, wire, mgr>>

\* msgbus_msg_envelope_put(frame->get_meta_data(), "ADDED", "test")
PutKey ==
    /\ Intact /\ nops < MaxOps
    /\ get_meta_data(frames[Cur]) # "NULL"
    /\ env.alive /\ EnvPutOk(env, "ADDED")
    /\ env' = EnvPut(env, "ADDED", StrV("test"))
    /\ lastOp' = [op |-> "put"]
    /\ nops' = nops + 1
    /\ UNCHANGED <<objs, frames, crashed, ub, exc, ret, snap, wire, mgr>>

\* frame->serialize(), on a fresh frame or once more on a serialized one
Serialize ==
    /\ Intact /\ env.alive
    /\ \E u \in BlobPtrOutcomes :
          Outcome(SerializeFailed(serialize(World, Cur, u), Cur))
    /\ snap' = IF frames[Cur].m_serialized THEN snap ELSE Snapshot(Cur)
    /\ lastOp' = [op |-> "serialize"]
    /\ UNCHANGED <<nops, wire, mgr>>

\* delete frame, by the owner of a frame that was not serialized
Delete ==
    /\ Usable /\ ~frames[Cur].m_serialized
    /\ Commit(DeleteFrame(World, Cur))
    /\ lastOp' = [op |-> "delete"]
    /\ UNCHANGED <<nops, snap, wire, mgr>>

\* msgbus_msg_envelope_destroy(msg) on the envelope serialize() returned
DestroyEnvelope ==
    /\ Usable /\ env.alive
    /\ frames[Cur].m_serialized /\ ~frames[Cur].m_msg
    /\ Commit(Return(EnvDestroy(World), "void"))
    /\ lastOp' = [op |-> "destroy"]
    /\ UNCHANGED <<nops, snap, wire, mgr>>

Next ==
    \/ NewFrame
    \/ Receive
    \/ Deserialize
    \/ SetData
    \/ SetEncoding
    \/ SetMultiFrameParameters
    \/ PutKey
    \/ Serialize
    \/ Delete
    \/ DestroyEnvelope

Spec == Init /\ [][Next]_vars

-----------------------------------------------------------------------------
\* One call on a fresh frame: the indexes, encode levels, envelopes and
\* envelope failures at the edges of what the callers can pass

\* Encode levels around the limits of verify_encoding_level
Levels == {0 - 1, 0, 9, 10, 100, 101}
Types == {"none", "jpeg", "png"}

\* The accessors that take a plane index
Accessors ==
    {"get_data", "get_width", "get_height", "get_channels", "get_encode_type",
     "get_encode_level"}

\* The call made last: its name, its index and encoding arguments, and what
\* an accessor returned
EdgeOp(op, index, ty, lvl, res) ==
    [op |-> op, index |-> index, ty |-> ty, lvl |-> lvl, res |-> res]

\* What a sender can get wrong in the envelope it publishes
Defects ==
    {"none", "no blob", "no width", "width not an integer",
     "no encoding_level", "encoding_level not an integer",
     "encoding_type not a string", "encoding_type bmp", "encoding_type empty",
     "no additional_frames", "additional_frames short",
     "plane without channels"}

Defective(e, x) ==
    CASE x = "no blob" -> [e EXCEPT !.blobT = "none", !.blobs = <<>>]
      [] x = "no width" -> EnvRemove(e, "width")
      [] x = "width not an integer" -> EnvPut(e, "width", StrV("2"))
      [] x = "no encoding_level" -> EnvRemove(e, "encoding_level")
      [] x = "encoding_level not an integer" ->
             EnvPut(e, "encoding_level", StrV("50"))
      [] x = "encoding_type not a string" ->
             EnvPut(e, "encoding_type", IntV(1))
      [] x = "encoding_type bmp" -> EnvPut(e, "encoding_type", StrV("bmp"))
      [] x = "encoding_type empty" -> EnvPut(e, "encoding_type", StrV(""))
      [] x = "no additional_frames" -> [e EXCEPT !.afT = "none", !.af = <<>>]
      [] x = "additional_frames short" ->
             [e EXCEPT !.af = SubSeq(@, 1, Len(@) - 1)]
      [] x = "plane without channels" ->
             [e EXCEPT !.af = [i \in 1..Len(@) |->
                                  [@[i] EXCEPT !["channels"] = NoV]]]
      [] OTHER -> e

\* new Frame(frame, width, height, channels, data, free_frame, num_frames,
\*           encode_type, encode_level) with any type and level
EdgeNewFrame ==
    /\ frames = <<>> /\ objs = <<>> /\ ~env.alive
    /\ \E d \in Dims, n \in 1..MaxPlanes, ty \in Types, lvl \in Levels,
          fr \in {"user", "NULL"} :
          /\ Commit(Construct(Alloc(World, "TestFrame", 0 - 1), ObjRef(1),
                              d[1], d[2], d[3], IngestData(1, n, d), fr, n,
                              ty, lvl))
          /\ lastOp' = EdgeOp("Frame", 0, ty, lvl, StrV(fr))
    /\ UNCHANGED <<nops, snap, wire, mgr>>

\* The message bus delivers an envelope that may be malformed
EdgeReceive ==
    /\ frames = <<>> /\ objs = <<>> /\ ~env.alive
    /\ \E d \in Dims, n \in 1..MaxPlanes, ec \in EncChoices, x \in Defects :
          /\ objs' = [i \in 1..n |->
                         [kind |-> "wire", freed |-> 0, size |-> 0 - 1]]
          /\ env' = Defective(WireEnv(n, d, ec), x)
          /\ wire' = Defective(WireEnv(n, d, ec), x)
          /\ lastOp' = EdgeOp("receive", 0, ec[1], ec[2], StrV(x))
    /\ UNCHANGED <<frames, crashed, ub, exc, ret, nops, snap, mgr>>

\* new Frame(msg) on the envelope received
EdgeDeserialize ==
    /\ crashed = "" /\ env.alive /\ Cur = 0 /\ lastOp.op = "receive"
    /\ \E g \in IF env.kv["encoding_type"].t = "none" THEN {0} ELSE Garbage :
          Outcome(FromEnvelope(World, g))
    /\ lastOp' = EdgeOp("Frame(msg)", 0, "", 0, NoV)
    /\ UNCHANGED <<nops, snap, wire, mgr>>

\* frame->set_data(new cv::Mat, ..., index) with an index from -1 to the
\* number of planes
EdgeSetData ==
    /\ Intact /\ nops = 0
    /\ \E index \in (0 - 1)..frames[Cur].m_num_frames, d \in PlaneDims,
          g \in Garbage :
          /\ (g # 0) => (frames[Cur].m_msg /\ index = 0
                           /\ frames[Cur].m_encode_type # "none")
          /\ LET W1 == Alloc(World, "cvMat", g)
                 mat == NewId(World)
                 pix == RawPix(10 + mat, d[1], d[2], d[3])
             IN  Outcome(CallerCleanup(
                     set_data(W1, Cur, ObjRef(mat), d[1], d[2], d[3],
                              [own |-> mat, pix |-> pix], "user", index, g),
                     Cur, mat))
          /\ lastOp' = EdgeOp("set_data", index, "", 0, NoV)
    /\ nops' = 1
    /\ UNCHANGED <<snap, wire, mgr>>

\* frame->set_encoding(encode_type, encode_level) with any type and level
EdgeSetEncoding ==
    /\ Intact /\ nops = 0
    /\ \E ty \in Types, lvl \in Levels :
          /\ Commit(set_encoding(World, Cur, ty, lvl))
          /\ lastOp' = EdgeOp("set_encoding", 0, ty, lvl, NoV)
    /\ nops' = 1
    /\ UNCHANGED <<snap, wire, mgr>>

\* frame->set_multi_frame_parameters(index, ...) with a level the type allows
\* or not
EdgeSetParams ==
    /\ Intact /\ nops = 0
    /\ \E index \in {0, 1}, d \in PlaneDims,
          ec \in PlaneEncChoices \cup {<<"png", 50>>} :
          /\ Commit(set_multi_frame_parameters(World, Cur, index, d[1], d[2],
                                               d[3], ec[1], ec[2]))
          /\ lastOp' = EdgeOp("set_multi_frame_parameters", index, ec[1],
                              ec[2], NoV)
    /\ nops' = 1
    /\ UNCHANGED <<snap, wire, mgr>>

\* A pointer as an accessor's result
PtrV(data) == [t |-> "ptr", i |-> data.own, s |-> ""]

\* What frame->get_data(index) can give its caller: the pointer of the plane,
\* NULL after serialize(), and for an index outside the planes whatever lies
\* next to m_data, or a fault
GetDataOutcomes(F, index) ==
    IF get_data(F, index) = WildData
    THEN {PtrV(WildData), PtrV(NullData), [t |-> "fault", i |-> 0, s |-> ""]}
    ELSE {PtrV(get_data(F, index))}

\* What accessor a gives for plane index
AccessorOutcomes(a, F, e, index) ==
    CASE a = "get_data" -> GetDataOutcomes(F, index)
      [] a = "get_width" -> {get_width(F, e, index)}
      [] a = "get_height" -> {get_height(F, e, index)}
      [] a = "get_channels" -> {get_channels(F, e, index)}
      [] a = "get_encode_type" -> {get_encode_type(F, e, index)}
      [] OTHER -> {get_encode_level(F, e, index)}

\* frame->get_width(index) and the other accessors, with an index from -1 to
\* the number of planes
EdgeGet ==
    /\ Intact
    /\ \E a \in Accessors, index \in (0 - 1)..frames[Cur].m_num_frames :
          \E v \in AccessorOutcomes(a, frames[Cur], env, index) :
              /\ lastOp' = EdgeOp(a, index, "", 0, v)
              /\ ret' = IF v.t = "throw" THEN "throw" ELSE "value"
              /\ exc' = IF v.t = "throw" THEN "Unable to fetch" ELSE ""
              /\ ub' = (ub \/ (a = "get_data"
                                 /\ get_data(frames[Cur], index) = WildData))
              /\ crashed' = IF v.t = "fault" THEN "out-of-bounds read"
                            ELSE crashed
    /\ UNCHANGED <<objs, frames, env, nops, snap, wire, mgr>>

\* The envelope operations that can fail inside set_data(..., 0) and inside
\* set_encoding: msgbus_msg_envelope_new_integer returning NULL, and
\* msgbus_msg_envelope_remove / msgbus_msg_envelope_put returning an error
DataFaults == {"new width", "put width", "put channels"}
EncodingFaults ==
    {"remove encoding_type", "put encoding_type", "put encoding_level"}

\* Frame::set_data(frame, width, height, channels, data, free_frame, 0) in
\* which the envelope operation fault fails. The e_width and e_height that
\* were already put are destroyed when the put of channels fails.
set_data_fault(W, f, frame, width, height, channels, data, free_frame, vsize, fault) ==
    LET F == W.frames[f]
        W1 == IF ~F.m_msg
              THEN SetDataReleaseOwn(Return(W, "void"), f, free_frame)
              ELSE SetDataReplaceBlob(Return(W, "void"), f, frame,
                       SetDataLen(F, width, height, channels, 0, vsize),
                       data, free_frame, 0)
        W2 == SetDataRepoint(W1, f, frame, data, 0)
        W3 == [W2 EXCEPT !.frames[f].m_width = width,
                         !.frames[f].m_height = height,
                         !.frames[f].m_channels = channels,
                         !.env.kv["width"] = NoV,
                         !.env.kv["height"] = NoV,
                         !.env.kv["channels"] = NoV]
    IN  IF F.m_serialized THEN Throw(W, "Cannot set data after serialization")
        ELSE IF W1.crashed # "" \/ W1.exc # "" THEN W1
        ELSE IF fault = "new width"
        THEN Throw(W2, "Failed to initialize width meta-data")
        ELSE IF fault = "put width"
        THEN Throw(W3, "Failed to put width meta-data")
        ELSE Throw([W3 EXCEPT !.env.kv["width"] = IntV(width),
                              !.env.kv["height"] = IntV(height),
                              !.ub = TRUE],
                   "Failed to put channels meta-data")

\* Frame::set_encoding(encode_type, encode_level) in which the envelope
\* operation fault fails, when the call gets to it
set_encoding_fault(W, f, encode_type, encode_level, fault) ==
    LET W1 == [W EXCEPT !.frames[f].m_encode_type = encode_type,
                        !.frames[f].m_encode_level = encode_level]
        e1 == SetEncodingMeta(W.env, "none", 0)
    IN  IF ~verify_encoding_level(encode_type, encode_level)
        THEN Throw(W, "Invalid encoding level for the encoding type")
        ELSE IF fault = "remove encoding_type"
        THEN (IF EnvHas(W.env, "encoding_type")
              THEN Throw(W1, "Failed to remove encoding_type from the meta-data")
              ELSE set_encoding(W, f, encode_type, encode_level))
        ELSE IF encode_type = "none"
        THEN set_encoding(W, f, encode_type, encode_level)
        ELSE IF fault = "put encoding_type"
        THEN Throw([W1 EXCEPT !.env = e1],
                   "Failed to put encoding type in object")
        ELSE Throw([W1 EXCEPT !.env = EnvPut(e1, "encoding_type",
                                             StrV(encode_type))],
                   "Failed to put encoding level in object")

\* frame->set_data(new cv::Mat, ..., 0) while the envelope library fails
EdgeSetDataFault ==
    /\ Intact /\ nops = 0
    /\ \E d \in PlaneDims, g \in Garbage, fault \in DataFaults :
          /\ (g # 0) => (frames[Cur].m_msg /\ frames[Cur].m_encode_type # "none")
          /\ LET W1 == Alloc(World, "cvMat", g)
                 mat == NewId(World)
                 pix == RawPix(10 + mat, d[1], d[2], d[3])
             IN  Outcome(CallerCleanup(
                     set_data_fault(W1, Cur, ObjRef(mat), d[1], d[2], d[3],
                                    [own |-> mat, pix |-> pix], "user", g,
                                    fault),
                     Cur, mat))
          /\ lastOp' = EdgeOp("set_data fault", 0, "", 0, StrV(fault))
    /\ nops' = 1
    /\ UNCHANGED <<snap, wire, mgr>>

\* frame->set_encoding(encode_type, encode_level) while the envelope library
\* fails
EdgeSetEncodingFault ==
    /\ Intact /\ nops = 0
    /\ \E ec \in EncChoices, fault \in EncodingFaults :
          /\ Commit(set_encoding_fault(World, Cur, ec[1], ec[2], fault))
          /\ lastOp' = EdgeOp("set_encoding fault", 0, ec[1], ec[2],
                              StrV(fault))
    /\ nops' = 1
    /\ UNCHANGED <<snap, wire, mgr>>

NextEdge ==
    \/ EdgeNewFrame
    \/ EdgeReceive
    \/ EdgeDeserialize
    \/ EdgeSetData
    \/ EdgeSetEncoding
    \/ EdgeSetParams
    \/ EdgeSetDataFault
    \/ EdgeSetEncodingFault
    \/ EdgeGet

SpecEdge == Init /\ [][NextEdge]_vars

-----------------------------------------------------------------------------
\* The UdfManager: dispatch thread, thread pool, workers and the two queues

MaxMgrFrames == 2
NumUdfs == 2
MaxWorkers == 2
MaxJobs == 1
OutCap == 1

RetCodes == {"UDF_OK", "UDF_DROP_FRAME", "UDF_FRAME_MODIFIED", "UDF_ERROR"}
MgrEncChoices == {<<"none", 0>>, <<"jpeg", 50>>, <<"jpeg", 101>>}
FrameEncChoices == {<<"none", 0>>, <<"jpeg", 60>>}

\* A frame as the manager sees it, and the UdfWorker context made for it
MgrFrame(ec) ==
    [m_encode_type |-> ec[1], m_encode_level |-> ec[2],
     popped |-> FALSE, emitted |-> 0, destroyed |-> 0,
     calls |-> <<>>, rets |-> <<>>, by |-> <<>>, done |-> FALSE,
     ctx |-> "none", handle |-> "none", handle_deleted |-> 0, uaf |-> FALSE]

IdleWorker == [st |-> "idle", frame |-> 0, i |-> 0]

\* UdfManager::UdfManager(udf_cfg, input_queue, output_queue, enc_type, enc_lvl)
\* fec is the encoding of the frames the ingestor pushes
MgrNew(ec, fec) ==
    [on |-> TRUE, ingest |-> fec, m_th |-> "NULL", m_stop |-> FALSE, spawned |-> 0,
     m_enc_type |-> ec[1], m_enc_lvl |-> ec[2],
     pc |-> "none", cur |-> 0, job_handle |-> "NULL",
     stop_pc |-> "none", pool_stop |-> FALSE, terminated |-> FALSE,
     inq |-> <<>>, outq |-> <<>>, fr |-> <<>>, jobs |-> <<>>,
     wk |-> [w \in 1..MaxWorkers |-> IdleWorker],
     dtor |-> "none", m_pool |-> "pool", m_udfs |-> "loaded"]

\* UdfManager::start()
start(m) ==
    IF m.m_th = "NULL" /\ ~m.m_stop
    THEN [m EXCEPT !.m_th = "thread", !.pc = "loop", !.spawned = @ + 1]
    ELSE m

\* UdfManager::run(): the test of while(!m_stop.load())
RunLoop(m) ==
    IF m.m_stop THEN [m EXCEPT !.pc = "exited"] ELSE [m EXCEPT !.pc = "wait"]

\* A dispatch thread that takes the frame at the back of the input queue: C32
\* does not hold of it
RunWaitBack(m) ==
    IF m.inq = <<>> THEN [m EXCEPT !.pc = "loop"]
    ELSE LET f == m.inq[Len(m.inq)] IN
         [m EXCEPT !.pc = "popped", !.cur = f,
                   !.inq = SubSeq(m.inq, 1, Len(m.inq) - 1),
                   !.fr[f].popped = TRUE]

\* UdfManager::run(): wait_for(250ms), then front() and pop(); on a timeout
\* the loop starts again
RunWait(m) ==
    IF m.inq = <<>> THEN [m EXCEPT !.pc = "loop"]
    ELSE [m EXCEPT !.pc = "popped", !.cur = Head(m.inq), !.inq = Tail(m.inq),
                   !.fr[Head(m.inq)].popped = TRUE]

\* frame->set_encoding(m_enc_type, m_enc_lvl) on a frame of the manager
MgrSetEncoding(m, f) ==
    LET W == [World EXCEPT !.frames = m.fr, !.env = EnvNew]
        W1 == set_encoding(W, f, m.m_enc_type, m.m_enc_lvl)
    IN  IF W1.exc # "" THEN [m EXCEPT !.terminated = TRUE, !.pc = "exited"]
        ELSE [m EXCEPT !.fr = W1.frames]

\* A dispatch that sets the manager's encoding on every frame, whatever the
\* frame's own type: C23 does not hold of it
RunEncodeAlways(m) ==
    LET f == m.cur
        m1 == IF m.m_enc_type # "none" THEN MgrSetEncoding(m, f) ELSE m
    IN  IF m1.terminated THEN m1
        ELSE [m1 EXCEPT !.pc = "submit", !.fr[f].ctx = "alive"]

\* UdfManager::run(): the encoding of the frame, then new UdfWorker(frame, ...)
RunEncode(m) ==
    LET f == m.cur
        m1 == IF m.fr[f].m_encode_type # m.m_enc_type /\ m.m_enc_type # "none"
              THEN MgrSetEncoding(m, f)
              ELSE m
    IN  IF m1.terminated THEN m1
        ELSE [m1 EXCEPT !.pc = "submit", !.fr[f].ctx = "alive"]

\* ThreadPool::submit(fn, ctx, free): NULL when the job queue is full, else
\* the job is queued and a new JobHandle returned
PoolSubmit(m, f) ==
    IF Len(m.jobs) >= MaxJobs THEN [m EXCEPT !.job_handle = "NULL"]
    ELSE [m EXCEPT !.jobs = Append(@, f), !.job_handle = "handle"]

\* UdfManager::run(): job_handle = m_pool->submit(&UdfWorker::run, ctx, free_udf_worker)
RunSubmit(m) == [PoolSubmit(m, m.cur) EXCEPT !.pc = "assign"]

\* A dispatch thread that sets the encoding of the frame after the submit,
\* next to the store of the handle: C28 does not hold of it
RunAssignAndEncode(m) ==
    LET f == m.cur IN
    [m EXCEPT !.fr[f].handle = m.job_handle, !.fr[f].m_encode_type = "png",
              !.fr[f].m_encode_level = 4, !.pc = "loop", !.cur = 0]

\* UdfManager::run(): ctx->handle = job_handle, a write to a freed context when
\* the job is already over
RunAssign(m) ==
    LET f == m.cur IN
    IF m.fr[f].ctx = "freed"
    THEN [m EXCEPT !.fr[f].uaf = TRUE, !.pc = "loop", !.cur = 0]
    ELSE [m EXCEPT !.fr[f].handle = m.job_handle, !.pc = "loop", !.cur = 0]

\* A switch that ends the chain on UDF_ERROR only: C2 does not hold of it
ChainEndsOnErrorOnly(rc) == rc = "UDF_ERROR"

\* The switch of UdfWorker::run on a UDF's return code: TRUE when the frame
\* is deleted and run returns
ChainEnds(rc) == rc \notin {"UDF_FRAME_MODIFIED", "UDF_OK"}

\* UdfWorker::run: one turn of the loop over the UDFs, process() returning rc
WorkerProcess(m, w, rc) ==
    LET f == m.wk[w].frame
        i == m.wk[w].i
        m1 == [m EXCEPT !.fr[f].calls = Append(@, i),
                        !.fr[f].rets = Append(@, rc)]
    IN  IF ChainEnds(rc)
        THEN [m1 EXCEPT !.fr[f].destroyed = @ + 1, !.fr[f].done = TRUE,
                        !.wk[w].st = "free"]
        ELSE IF i < NumUdfs THEN [m1 EXCEPT !.wk[w].i = i + 1]
        ELSE [m1 EXCEPT !.wk[w].st = "push"]

\* A push_wait followed by delete ctx->frame: C3 does not hold of it
WorkerPushThenDelete(m, w) ==
    LET f == m.wk[w].frame IN
    [m EXCEPT !.outq = Append(@, f), !.fr[f].emitted = @ + 1,
              !.fr[f].destroyed = @ + 1,
              !.fr[f].done = TRUE, !.wk[w].st = "free"]

\* UdfWorker::run: ctx->output_queue->push_wait(ctx->frame)
WorkerPush(m, w) ==
    LET f == m.wk[w].frame IN
    [m EXCEPT !.outq = Append(@, f), !.fr[f].emitted = @ + 1,
              !.fr[f].done = TRUE, !.wk[w].st = "free"]

\* free_udf_worker(ctx): delete ctx, and ~UdfWorker deletes the job handle.
\* calls, rets and by record the process() calls of a job until it is freed.
WorkerFree(m, w) ==
    LET f == m.wk[w].frame IN
    [m EXCEPT !.fr[f].ctx = "freed",
              !.fr[f].calls = <<>>, !.fr[f].rets = <<>>, !.fr[f].by = <<>>,
              !.fr[f].handle_deleted =
                  IF m.fr[f].handle = "handle" THEN @ + 1 ELSE @,
              !.wk[w] = IdleWorker]

-----------------------------------------------------------------------------
\* The UdfManager at work: its caller, its dispatch thread, the pool's workers,
\* the producer of the input queue and the consumer of the output queue

InitMgr ==
    /\ objs = <<>>
    /\ frames = <<>>
    /\ env = NoEnv
    /\ crashed = ""
    /\ ub = FALSE
    /\ exc = ""
    /\ ret = ""
    /\ lastOp = NoOp
    /\ nops = 0
    /\ snap = NoSnap
    /\ wire = NoEnv
    /\ mgr \in {MgrNew(ec, fec) : ec \in MgrEncChoices, fec \in FrameEncChoices}

Running == mgr.on /\ ~mgr.terminated

\* input_queue->push(frame) by the ingestor
PushInput ==
    /\ Running /\ mgr.dtor = "none" /\ Len(mgr.fr) < MaxMgrFrames
    /\ mgr' = [mgr EXCEPT !.fr = Append(@, MgrFrame(mgr.ingest)),
                          !.inq = Append(@, Len(mgr.fr) + 1)]
    /\ UNCHANGED frameVars

\* output_queue->front() and pop() by the publisher
PopOutput ==
    /\ Running /\ mgr.dtor = "none" /\ mgr.outq # <<>>
    /\ mgr' = [mgr EXCEPT !.outq = Tail(@)]
    /\ UNCHANGED frameVars

MgrStart ==
    /\ Running /\ mgr.dtor = "none" /\ mgr.stop_pc \in {"none", "returned"}
    /\ mgr' = start(mgr)
    /\ UNCHANGED frameVars

\* UdfManager::stop(): the test and m_stop.store(true)
MgrStop ==
    /\ Running /\ mgr.dtor = "none" /\ mgr.stop_pc \in {"none", "returned"}
    /\ mgr' = IF mgr.m_th # "NULL" /\ ~mgr.m_stop
              THEN [mgr EXCEPT !.m_stop = TRUE, !.stop_pc = "join"]
              ELSE [mgr EXCEPT !.stop_pc = "returned"]
    /\ UNCHANGED frameVars

\* UdfManager::stop(): m_th->join() returns once run() has returned
MgrJoin ==
    /\ Running /\ mgr.stop_pc = "join" /\ mgr.pc = "exited"
    /\ mgr' = [mgr EXCEPT !.m_th = "joined", !.stop_pc = "pool"]
    /\ UNCHANGED frameVars

\* UdfManager::stop(): m_pool->stop() tells the workers to stop ...
MgrPoolStop ==
    /\ Running /\ mgr.stop_pc = "pool"
    /\ mgr' = [mgr EXCEPT !.pool_stop = TRUE, !.stop_pc = "pool_join"]
    /\ UNCHANGED frameVars

\* ... and returns when the jobs in flight are over
MgrPoolJoined ==
    /\ Running /\ mgr.stop_pc = "pool_join"
    /\ \A w \in 1..MaxWorkers : mgr.wk[w].st = "idle"
    /\ mgr' = [mgr EXCEPT !.stop_pc = "returned"]
    /\ UNCHANGED frameVars

DispatchLoop ==
    /\ Running /\ mgr.pc = "loop"
    /\ mgr' = RunLoop(mgr)
    /\ UNCHANGED frameVars

DispatchWait ==
    /\ Running /\ mgr.pc = "wait"
    /\ mgr' = RunWait(mgr)
    /\ UNCHANGED frameVars

DispatchEncode ==
    /\ Running /\ mgr.pc = "popped"
    /\ mgr' = RunEncode(mgr)
    /\ UNCHANGED frameVars

DispatchSubmit ==
    /\ Running /\ mgr.pc = "submit"
    /\ mgr' = RunSubmit(mgr)
    /\ UNCHANGED frameVars

DispatchAssign ==
    /\ Running /\ mgr.pc = "assign"
    /\ mgr' = RunAssign(mgr)
    /\ UNCHANGED frameVars

\* A worker of the pool takes the next job of the queue: the workers are
\* alike, so it is the first idle one
WorkerTake ==
    /\ Running /\ ~mgr.pool_stop /\ mgr.jobs # <<>>
    /\ \E w \in 1..MaxWorkers :
          /\ mgr.wk[w].st = "idle"
          /\ \A v \in 1..(w - 1) : mgr.wk[v].st # "idle"
          /\ mgr' = [mgr EXCEPT !.jobs = Tail(@),
                                !.wk[w] = [st |-> "run", frame |-> Head(mgr.jobs),
                                           i |-> 1]]
    /\ UNCHANGED frameVars

WorkerRun ==
    /\ Running
    /\ \E w \in 1..MaxWorkers, rc \in RetCodes :
          /\ mgr.wk[w].st = "run"
          /\ mgr' = WorkerProcess(mgr, w, rc)
    /\ UNCHANGED frameVars

\* push_wait blocks while the output queue is full
WorkerPushWait ==
    /\ Running /\ Len(mgr.outq) < OutCap
    /\ \E w \in 1..MaxWorkers :
          /\ mgr.wk[w].st = "push"
          /\ mgr' = WorkerPush(mgr, w)
    /\ UNCHANGED frameVars

WorkerFreeCtx ==
    /\ Running
    /\ \E w \in 1..MaxWorkers :
          /\ mgr.wk[w].st = "free"
          /\ mgr' = WorkerFree(mgr, w)
    /\ UNCHANGED frameVars

NextMgr ==
    \/ PushInput
    \/ PopOutput
    \/ MgrStart
    \/ MgrStop
    \/ MgrJoin
    \/ MgrPoolStop
    \/ MgrPoolJoined
    \/ DispatchLoop
    \/ DispatchWait
    \/ DispatchEncode
    \/ DispatchSubmit
    \/ DispatchAssign
    \/ WorkerTake
    \/ WorkerRun
    \/ WorkerPushWait
    \/ WorkerFreeCtx

SpecMgr == InitMgr /\ [][NextMgr]_vars

\* The manager under fair scheduling: every thread of the manager that can
\* take its next step takes it (the caller inside stop(), the dispatch
\* thread, the workers, whose process() calls return). Nothing is assumed of
\* the ingestor, of the publisher, or of when start() and stop() are called.
SpecMgrFair ==
    /\ InitMgr /\ [][NextMgr]_vars
    /\ WF_vars(MgrJoin) /\ WF_vars(MgrPoolStop) /\ WF_vars(MgrPoolJoined)
    /\ WF_vars(DispatchLoop) /\ WF_vars(DispatchWait)
    /\ WF_vars(DispatchEncode) /\ WF_vars(DispatchSubmit)
    /\ WF_vars(DispatchAssign)
    /\ WF_vars(WorkerTake) /\ WF_vars(WorkerRun) /\ WF_vars(WorkerPushWait)
    /\ WF_vars(WorkerFreeCtx)

\* The pipeline of a started manager that nobody stops and whose encoding
\* level is valid: ingestor, dispatch thread, workers and publisher
InitPipeline ==
    /\ objs = <<>>
    /\ frames = <<>>
    /\ env = NoEnv
    /\ crashed = ""
    /\ ub = FALSE
    /\ exc = ""
    /\ ret = ""
    /\ lastOp = NoOp
    /\ nops = 0
    /\ snap = NoSnap
    /\ wire = NoEnv
    /\ mgr \in {start(MgrNew(ec, fec)) :
                   ec \in {c \in MgrEncChoices :
                              verify_encoding_level(c[1], c[2])},
                   fec \in FrameEncChoices}

NextPipeline ==
    \/ PushInput
    \/ PopOutput
    \/ DispatchLoop
    \/ DispatchWait
    \/ DispatchEncode
    \/ DispatchSubmit
    \/ DispatchAssign
    \/ WorkerTake
    \/ WorkerRun
    \/ WorkerPushWait
    \/ WorkerFreeCtx

SpecPipeline == InitPipeline /\ [][NextPipeline]_vars

-----------------------------------------------------------------------------
\* Properties of the Frame life cycle

Mutators == {"set_data", "set_encoding", "set_multi_frame_parameters"}

AllFrames == 1..Len(frames)
AllObjs == 1..Len(objs)

\* C1: serialization is one-shot and terminal. A serialize() that returns the
\* envelope leaves the frame serialized; a serialized frame stays serialized
\* whatever is called next, its get_data(i) and get_meta_data() return NULL,
\* and a further serialize() returns NULL.
C1_SerializeIsTerminal ==
    [][/\ (lastOp'.op = "serialize" /\ ret' = "m_meta_data")
              => frames'[Cur].m_serialized
       /\ \A f \in AllFrames : frames[f].m_serialized =>
              /\ frames'[f].m_serialized
              /\ \A i \in 0..MaxPlanes : get_data(frames'[f], i) = NullData
              /\ get_meta_data(frames'[f]) = "NULL"
       /\ (lastOp'.op = "serialize" /\ frames[Cur].m_serialized)
              => ret' = "NULL"]_vars

\* C1 witness: serialize() was called again on a serialized frame, after a
\* setter was called on it
C1_SecondSerialize ==
    /\ lastOp.op = "serialize" /\ ret = "NULL"
    /\ frames[Cur].m_serialized /\ nops > 0

\* C10: once a frame is serialized, set_data, set_encoding and
\* set_multi_frame_parameters throw and change neither the frame nor the
\* envelope.
C10_MutationAfterSerializeFails ==
    [][(/\ Cur > 0
        /\ frames[Cur].m_serialized
        /\ nops' = nops + 1
        /\ lastOp'.op \in Mutators)
          => (ret' = "throw" /\ frames' = frames /\ env' = env)]_vars

\* serialize() has just returned the envelope
Serialized == lastOp.op = "serialize" /\ ret = "m_meta_data"

\* Frame(msg) has just made a frame of the envelope the previous frame's
\* serialize() returned; snap holds what that frame's accessors reported
RoundTrip ==
    /\ lastOp.op = "Frame(msg)" /\ ret = "Frame"
    /\ Cur >= 2 /\ snap.f = Cur - 1

\* the planes of snap were all of encode type None / all JPEG or PNG
SnapPlain == \A i \in 1..snap.n : snap.planes[i].ty = StrV("none")
SnapEncoded == \A i \in 1..snap.n : snap.planes[i].ty.s \in {"jpeg", "png"}

\* C4: in the envelope serialize() returns only the last blob carries the
\* hook that frees the Frame and the other blobs carry none; once that
\* envelope is destroyed every buffer and every Frame has been freed exactly
\* once.
C4_OwnershipHandOff ==
    /\ Serialized =>
           \A i \in 1..Len(env.blobs) :
               env.blobs[i].free =
                   IF i = Len(env.blobs) THEN "msg_free_frame" ELSE "NULL"
    /\ lastOp.op = "destroy" =>
           /\ crashed = ""
           /\ \A o \in AllObjs : objs[o].freed = 1
           /\ \A f \in AllFrames : frames[f].deleted = 1

\* C5: no NULL releaser is ever called and no buffer is released twice; once
\* an unserialized frame is deleted, every buffer it ever owned has been
\* released exactly once.
C5_ReleaserExactlyOnce ==
    /\ crashed # "null function pointer called"
    /\ \A o \in AllObjs : objs[o].freed <= 1
    /\ lastOp.op = "delete" => \A o \in AllObjs : objs[o].freed = 1

\* C6: serialize() of a frame of N >= 2 planes yields N blobs, and blob i
\* carries the image plane i held when serialize() was called.
C6_BlobOrderIsPlaneOrder ==
    (Serialized /\ snap.n >= 2) =>
        /\ Len(env.blobs) = snap.n
        /\ \A i \in 1..snap.n :
               env.blobs[i].data.pix.v = snap.planes[i].data.pix.v

\* C7: a frame made of the envelope of a serialized frame without encoding
\* has as many planes, each with the width, height, channels and pixel bytes
\* the original plane had, and the envelope still holds the custom keys.
C7_RoundTripWithoutEncoding ==
    (RoundTrip /\ SnapPlain) =>
        /\ get_number_of_frames(frames[Cur]) = snap.n
        /\ \A i \in 1..snap.n :
               LET P == Planes(frames[Cur], env)[i] IN
               /\ P.w = snap.planes[i].w
               /\ P.h = snap.planes[i].h
               /\ P.c = snap.planes[i].c
               /\ P.data.pix = snap.planes[i].data.pix
        /\ \A k \in {"ADDED", "img_handle"} : env.kv[k] = snap.kv[k]

\* C8: a frame made of the envelope of a serialized JPEG or PNG frame
\* reports encode type None for every plane, and the width, height and
\* channels the original planes had.
C8_RoundTripWithEncoding ==
    (RoundTrip /\ SnapEncoded) =>
        /\ get_number_of_frames(frames[Cur]) = snap.n
        /\ \A i \in 1..snap.n :
               LET P == Planes(frames[Cur], env)[i] IN
               /\ P.ty = StrV("none")
               /\ P.w = snap.planes[i].w
               /\ P.h = snap.planes[i].h
               /\ P.c = snap.planes[i].c

\* the bytes the blobs of an envelope carry, in order
BlobBytes(e) == [i \in 1..Len(e.blobs) |-> e.blobs[i].data.pix]

\* C9: serialize() called right after Frame(msg) returns an envelope with the
\* keys and additional_frames of the input and with the same blob bytes in
\* the same order.
C9_DeserializeSerializeIdentity ==
    [][(lastOp.op = "Frame(msg)" /\ lastOp'.op = "serialize"
            /\ ret' = "m_meta_data")
          => (/\ env'.kv = wire.kv
              /\ env'.afT = wire.afT
              /\ env'.af = wire.af
              /\ BlobBytes(env') = BlobBytes(wire))]_vars

-----------------------------------------------------------------------------
\* Properties of the UdfManager's pipeline

GoodCodes == {"UDF_OK", "UDF_FRAME_MODIFIED"}
MgrFrames == 1..Len(mgr.fr)

\* The run of the frame's job has returned
JobOver(f) ==
    \/ mgr.fr[f].ctx = "freed"
    \/ \E w \in 1..MaxWorkers : mgr.wk[w].frame = f /\ mgr.wk[w].st = "free"

AllGood(rets) == Len(rets) = NumUdfs /\ \A j \in 1..Len(rets) : rets[j] \in GoodCodes

\* C2: the UDFs are called on a frame in configuration order, each at most
\* once; no UDF is called after one returned UDF_DROP_FRAME or UDF_ERROR, and
\* that frame is destroyed; UDF_FRAME_MODIFIED counts as UDF_OK; the frame is
\* pushed to the output queue iff every UDF returned UDF_OK or
\* UDF_FRAME_MODIFIED.
C2_ChainPrecedence ==
    \A f \in MgrFrames :
        LET F == mgr.fr[f] IN
        /\ F.calls = [j \in 1..Len(F.calls) |-> j]
        /\ Len(F.rets) = Len(F.calls)
        /\ \A j \in 1..(Len(F.rets) - 1) : F.rets[j] \in GoodCodes
        /\ (F.rets # <<>> /\ F.rets[Len(F.rets)] \notin GoodCodes)
               => (F.destroyed = 1 /\ F.emitted = 0 /\ F.done)
        /\ (F.ctx = "alive" /\ F.emitted > 0) => AllGood(F.rets)
        /\ (F.ctx = "alive" /\ F.done /\ AllGood(F.rets))
               => (F.emitted = 1 /\ F.destroyed = 0)

\* C2 witness: the second UDF dropped a frame the first one had modified,
\* and another frame went through the whole chain
C2_DroppedAfterModified ==
    \E f \in MgrFrames, g \in MgrFrames :
        /\ mgr.fr[f].rets = <<"UDF_FRAME_MODIFIED", "UDF_DROP_FRAME">>
        /\ mgr.fr[f].destroyed = 1
        /\ mgr.fr[g].ctx = "alive" /\ mgr.fr[g].emitted = 1
        /\ "UDF_FRAME_MODIFIED" \in {mgr.fr[g].rets[j] : j \in 1..Len(mgr.fr[g].rets)}

Occurrences(q, f) == Cardinality({j \in 1..Len(q) : q[j] = f})

-----------------------------------------------------------------------------
\* Plane indexes

IndexedOps == Accessors \cup {"set_data"}

\* C11: on a frame of N planes that is not serialized, set_data(index, ...)
\* and the indexed accessors succeed for every index in [0, N); for every
\* other index they throw and leave the frame, the envelope and every buffer
\* as they were (no releaser runs).
C11_PlaneIndexRange ==
    [][(lastOp'.op \in IndexedOps /\ Intact) =>
          IF lastOp'.index >= 0 /\ lastOp'.index < frames[Cur].m_num_frames
          THEN ret' # "throw" /\ crashed' = ""
          ELSE /\ ret' = "throw"
               /\ frames' = frames /\ env' = env
               /\ \A o \in 1..Len(objs) : objs'[o] = objs[o]]_vars

-----------------------------------------------------------------------------
\* Failing envelope operations

\* What C12 lists of a frame: the dimensions and encoding in memory, the data
\* pointer of every plane, and the descriptor keys of the envelope
FrameFacts(F, e) ==
    <<F.m_width, F.m_height, F.m_channels, F.m_encode_type, F.m_encode_level,
      F.m_data, [k \in DescKeys |-> e.kv[k]], e.af>>

\* C12: when an envelope operation (new, remove, put) fails inside set_data
\* or set_encoding, the call leaves the frame as it was: its width, height,
\* channels and encoding, the data pointer of every plane, the descriptor
\* keys of the envelope, and the old buffer, whose releaser has not run.
C12_AtomicMutation ==
    [][(lastOp'.op \in {"set_data fault", "set_encoding fault"}
          /\ Intact /\ ret' = "throw"
          /\ exc' # "Invalid encoding level for the encoding type") =>
          /\ FrameFacts(frames'[Cur], env') = FrameFacts(frames[Cur], env)
          /\ \A o \in 1..Len(objs) : objs'[o] = objs[o]]_vars

-----------------------------------------------------------------------------
\* The descriptors of the envelope and the accessors

\* The value the envelope holds for key k of plane i: a root key for plane 0,
\* a key of additional_frames[i-1] for the others
Descriptor(e, i, k) ==
    IF i = 0 THEN e.kv[k]
    ELSE IF e.afT = "array" /\ i <= Len(e.af) THEN e.af[i][k]
    ELSE NoV

\* The value of key k of plane i as the accessors report it; a plane that is
\* not encoded has no encoding keys
Reported(F, e, i, k) ==
    CASE k = "width" -> get_width(F, e, i)
      [] k = "height" -> get_height(F, e, i)
      [] k = "channels" -> get_channels(F, e, i)
      [] k = "encoding_type" ->
             IF get_encode_type(F, e, i) = StrV("none") /\ i = 0 THEN NoV
             ELSE get_encode_type(F, e, i)
      [] OTHER ->
             IF get_encode_type(F, e, i) = StrV("none") /\ i = 0 THEN NoV
             ELSE get_encode_level(F, e, i)

\* C13: after every successful set_data, set_encoding or
\* set_multi_frame_parameters on a frame that is not serialized, the
\* descriptor of every plane in the envelope (width, height, channels,
\* encoding_type, encoding_level) equals what the accessors return for it.
C13_DescriptorConsistency ==
    (/\ Intact /\ ~frames[Cur].m_serialized /\ ret # "throw"
     /\ lastOp.op \in {"set_data", "set_encoding",
                       "set_multi_frame_parameters"}) =>
        \A i \in 0..(frames[Cur].m_num_frames - 1), k \in DescKeys :
            \/ Reported(frames[Cur], env, i, k).t = "throw"
            \/ Descriptor(env, i, k) = Reported(frames[Cur], env, i, k)

-----------------------------------------------------------------------------
\* Encode levels

\* The encoding of plane i of a frame satisfies verify_encoding_level
PlaneLevelOk(F, e, i) ==
    LET ty == get_encode_type(F, e, i)
        lv == get_encode_level(F, e, i)
    IN  (ty.t # "throw" /\ lv.t # "throw") =>
            verify_encoding_level(ty.s, lv.i)

\* C14: in every reachable state, however the frame was created (constructor
\* or envelope) and whatever set_encoding and set_multi_frame_parameters
\* calls were made, the encode type and level of every plane satisfy
\* verify_encoding_level: 0..100 for JPEG, 0..9 for PNG.
C14_EncodingLevelInvariant ==
    \A f \in 1..Len(frames) :
        \A i \in 0..(frames[f].m_num_frames - 1) :
            PlaneLevelOk(frames[f], env, i)

\* The ranges as C15 states them
InRange(ty, lvl) ==
    CASE ty = "jpeg" -> lvl \in 0..100
      [] ty = "png" -> lvl \in 0..9
      [] OTHER -> TRUE

\* C15: verify_encoding_level(JPEG, l) holds exactly for 0 <= l <= 100 and
\* verify_encoding_level(PNG, l) exactly for 0 <= l <= 9, and None accepts
\* every level; the constructor (given a release function) and set_encoding
\* throw exactly when the predicate is false, and a set_encoding that threw
\* has left the frame and the envelope as they were.
C15_LevelBoundaries ==
    /\ [](\A ty \in Types, lvl \in (0 - 3)..103 :
              verify_encoding_level(ty, lvl) <=> InRange(ty, lvl))
    /\ [][/\ (lastOp'.op = "Frame" /\ lastOp'.res = StrV("user")) =>
                 ((ret' = "throw") <=> ~InRange(lastOp'.ty, lastOp'.lvl))
          /\ (lastOp'.op = "set_encoding" /\ Intact) =>
                 /\ (ret' = "throw") <=> ~InRange(lastOp'.ty, lastOp'.lvl)
                 /\ (ret' = "throw") => (frames' = frames /\ env' = env)]_vars

\* set_encoding(PNG, 10) was rejected on a frame encoded as JPEG
C15_RejectedAtBoundary ==
    /\ lastOp.op = "set_encoding" /\ lastOp.ty = "png" /\ lastOp.lvl = 10
    /\ ret = "throw" /\ Intact /\ frames[Cur].m_encode_type = "jpeg"

-----------------------------------------------------------------------------
\* Frame(msg): what the constructor accepts

\* The root descriptor C16 requires of an envelope
RootValid(e) ==
    /\ e.blobT # "none"
    /\ \A k \in {"width", "height", "channels"} : e.kv[k].t = "int"
    /\ \/ e.kv["encoding_type"].t = "none"
       \/ /\ e.kv["encoding_type"].t = "str"
          /\ e.kv["encoding_type"].s \in {"jpeg", "png"}
          /\ e.kv["encoding_level"].t = "int"

\* C16: Frame(msg) succeeds only if the envelope has a blob, width, height
\* and channels are present and integers and, when encoding_type is present,
\* it is the string "jpeg" or "png" and encoding_level is present and an
\* integer; in every other case the constructor throws and there is no Frame.
C16_RootValidation ==
    (lastOp.op = "Frame(msg)" /\ crashed = "") =>
        IF RootValid(wire) THEN ret = "throw" => frames = <<>>
        ELSE ret = "throw" /\ frames = <<>>

\* The additional_frames C17 requires of an envelope of several blobs
PlanesValid(e) ==
    /\ e.afT = "array" /\ Len(e.af) = Len(e.blobs) - 1
    /\ \A i \in 1..Len(e.af) :
           \A k \in {"width", "height", "channels"} : e.af[i][k].t = "int"

\* A plane whose descriptor has no encoding_type key is reported as None
NoTypeIsNone(F, e) ==
    \A i \in 1..(F.m_num_frames - 1) :
        Descriptor(e, i, "encoding_type") = NoV =>
            get_encode_type(F, e, i) = StrV("none")

\* C17: Frame(msg) on an envelope whose blob is an array of N >= 2 blobs
\* succeeds only if the envelope has an additional_frames array of exactly
\* N - 1 objects, each with integer width, height and channels; otherwise it
\* throws and there is no Frame. Of the frame constructed, a plane without an
\* encoding_type key has get_encode_type(i) = None.
C17_MultiPlaneValidation ==
    (lastOp.op = "Frame(msg)" /\ crashed = "" /\ Len(wire.blobs) >= 2) =>
        IF ret = "Frame"
        THEN PlanesValid(wire) /\ NoTypeIsNone(frames[Cur], env)
        ELSE frames = <<>>

-----------------------------------------------------------------------------
\* The UdfManager: start() and stop()

\* C18: whatever start() and stop() calls are made on a UdfManager, at most
\* one dispatch thread is ever spawned, a start() while the thread exists
\* spawns nothing, and no start() made after a stop() spawns a thread, also
\* when that stop() came before the first start().
C18_StartStopLifecycle ==
    [][mgr.on =>
          /\ mgr'.spawned <= 1
          /\ (mgr.m_th # "NULL") => (mgr'.spawned = mgr.spawned)
          /\ (mgr.stop_pc # "none") => (mgr'.spawned = mgr.spawned)]_vars

\* stop() has returned on a manager that was started
Stopped == mgr.on /\ mgr.m_stop /\ mgr.stop_pc = "returned"

\* The dispatch thread has exited and the pool has no running or queued job:
\* every frame popped from the input queue was pushed to the output queue or
\* destroyed
Quiesced ==
    /\ mgr.pc = "exited" /\ mgr.jobs = <<>>
    /\ \A w \in 1..MaxWorkers : mgr.wk[w].st = "idle"
    /\ \A f \in 1..Len(mgr.fr) :
           mgr.fr[f].popped => (mgr.fr[f].emitted + mgr.fr[f].destroyed = 1)

\* C19: when stop() returns on a started manager the stop flag is set, the
\* dispatch thread has exited and the pool has no running or queued job, every
\* frame popped before having been pushed to the output queue or destroyed;
\* afterwards no frame is popped from the input queue again, and a second
\* stop() joins no thread and stops no pool.
C19_OrderlyStop ==
    /\ [](Stopped => Quiesced)
    /\ [][Stopped =>
             /\ \A f \in 1..Len(mgr.fr) : mgr'.fr[f].popped = mgr.fr[f].popped
             /\ mgr'.m_th = mgr.m_th /\ mgr'.pool_stop = mgr.pool_stop
             /\ mgr'.stop_pc = "returned"]_vars

\* C20: once stop() is under way on a started manager it returns: the dispatch
\* thread leaves its loop and every worker in flight finishes, given fair
\* scheduling and process() calls that return. (A process brought down by an
\* exception of the dispatch thread is not counted against it.)
C20_ShutdownTerminates ==
    (mgr.on /\ mgr.stop_pc = "join") ~>
        (mgr.stop_pc = "returned" \/ mgr.terminated)

-----------------------------------------------------------------------------
\* The job queue of the pool

\* The frame's job is in the pool: queued, or taken by a worker
InPool(f) ==
    \/ \E j \in 1..Len(mgr.jobs) : mgr.jobs[j] = f
    \/ \E w \in 1..MaxWorkers : mgr.wk[w].frame = f

\* C21: when submit returns NULL because the job queue is full, the dispatch
\* thread submits the same frame again until the pool accepts it: it does not
\* go on to another frame with a NULL handle, and a frame it popped and has
\* finished with is in the pool, pushed to the output queue or destroyed.
C21_SubmitRetried ==
    /\ [](\A f \in MgrFrames :
             (mgr.fr[f].popped /\ mgr.cur # f)
                 => (InPool(f) \/ mgr.fr[f].emitted + mgr.fr[f].destroyed > 0))
    /\ [][(mgr.pc = "assign" /\ mgr.job_handle = "NULL")
              => (mgr'.pc = "submit" /\ mgr'.cur = mgr.cur)]_vars

\* The pipeline under fair scheduling: the dispatch thread and the workers
\* take their next step when they can, process() returns, and the publisher
\* pops the output queue when it holds a frame. Nothing is assumed of the
\* ingestor.
SpecPipelineFair ==
    /\ InitPipeline /\ [][NextPipeline]_vars
    /\ WF_vars(DispatchLoop) /\ WF_vars(DispatchWait)
    /\ WF_vars(DispatchEncode) /\ WF_vars(DispatchSubmit)
    /\ WF_vars(DispatchAssign)
    /\ WF_vars(WorkerTake) /\ WF_vars(WorkerRun) /\ WF_vars(WorkerPushWait)
    /\ WF_vars(WorkerFreeCtx) /\ WF_vars(PopOutput)

\* C22: in a started manager that is not stopped, a frame pushed to the input
\* queue is eventually pushed to the output queue, unless one of its UDFs
\* returned UDF_DROP_FRAME or UDF_ERROR, in which case the worker destroyed it.
C22_ProcessingLiveness ==
    \A f \in 1..MaxMgrFrames :
        (f \in MgrFrames) ~>
            (f \in MgrFrames /\ (mgr.fr[f].emitted = 1 \/ mgr.fr[f].destroyed = 1))

-----------------------------------------------------------------------------
\* The encoding of the frames the manager dispatches

-----------------------------------------------------------------------------
\* The construction of a UdfManager

MaxUdfEntries == 2
UdfEntries == {"ok", "not an object", "no name", "name not a string", "load fails"}
CfgInts == {"absent", "integer", "string"}

\* The configurations handed to the constructor: "udfs" is missing, is not an
\* array, or is an array of entries
CtorConfigs ==
    {c \in [udfs_type : {"missing", "not an array", "array"},
            udfs : UNION {[1..n -> UdfEntries] : n \in 0..MaxUdfEntries},
            max_jobs : CfgInts, max_workers : CfgInts] :
        c.udfs_type # "array" => c.udfs = <<>>}

\* UdfManager::UdfManager: one step of the constructor from position c.pc.
\* new ThreadPool(max_workers, max_jobs) makes the pool with its fixed number
\* of worker threads; threads counts the threads started so far.
Construction(c) ==
    CASE c.pc = "udfs" ->
            IF c.cfg.udfs_type = "missing"
            THEN [c EXCEPT !.pc = "thrown", !.thrown = "Failed to get UDFs"]
            ELSE IF c.cfg.udfs_type # "array"
            THEN [c EXCEPT !.pc = "thrown", !.thrown = "\"udfs\" must be an array"]
            ELSE [c EXCEPT !.pc = "max_jobs"]
      [] c.pc = "max_jobs" ->
            IF c.cfg.max_jobs = "string"
            THEN [c EXCEPT !.pc = "thrown", !.thrown = "\"max_jobs\" must be an integer"]
            ELSE [c EXCEPT !.pc = "max_workers"]
      [] c.pc = "max_workers" ->
            IF c.cfg.max_workers = "string"
            THEN [c EXCEPT !.pc = "thrown", !.thrown = "\"max_jobs\" must be an integer"]
            ELSE [c EXCEPT !.pc = "pool"]
      [] c.pc = "pool" ->
            [c EXCEPT !.pc = "load", !.m_pool = "pool", !.threads = MaxWorkers]
      [] c.pc = "load" ->
            IF c.i > Len(c.cfg.udfs) THEN [c EXCEPT !.pc = "constructed"]
            ELSE LET e == c.cfg.udfs[c.i] IN
                 IF e = "not an object"
                 THEN [c EXCEPT !.pc = "thrown", !.thrown = "UDF configuration must be objects"]
                 ELSE IF e = "no name"
                 THEN [c EXCEPT !.pc = "thrown", !.thrown = "Failed to get UDF name"]
                 ELSE IF e = "name not a string"
                 THEN [c EXCEPT !.pc = "thrown", !.thrown = "UDF name must be a string"]
                 ELSE IF e = "load fails"
                 THEN [c EXCEPT !.pc = "thrown", !.thrown = "Failed to load UDF"]
                 ELSE [c EXCEPT !.i = @ + 1, !.m_udfs = @ + 1]
      [] OTHER -> c

\* The member initializers of the constructor: m_th(NULL), m_stop(false)
InitCtor ==
    /\ objs = <<>>
    /\ frames = <<>>
    /\ env = NoEnv
    /\ crashed = ""
    /\ ub = FALSE
    /\ exc = ""
    /\ ret = ""
    /\ lastOp = NoOp
    /\ nops = 0
    /\ snap = NoSnap
    /\ wire = NoEnv
    /\ mgr \in {[cfg |-> c, pc |-> "udfs", i |-> 1, m_th |-> "NULL", m_stop |-> FALSE,
                 m_pool |-> "none", threads |-> 0, m_udfs |-> 0, thrown |-> ""] :
                    c \in CtorConfigs}

CtorStep ==
    /\ mgr.pc \notin {"thrown", "constructed"}
    /\ mgr' = Construction(mgr)
    /\ UNCHANGED frameVars

SpecCtor == InitCtor /\ [][CtorStep]_vars

\* C24: when the construction of a UdfManager fails, the error reaches the
\* caller before any thread has been started, dispatch thread or pool worker.
C24_FailFastConstruction ==
    mgr.pc = "thrown" => (mgr.thrown # "" /\ mgr.m_th = "NULL" /\ mgr.threads = 0)

-----------------------------------------------------------------------------
\* The destruction of a UdfManager

\* A drain that takes the frame at the front of the queue without deleting
\* it: C25 does not hold of it
DeleteQueuedButFront(fr, q) ==
    [f \in 1..Len(fr) |->
        [fr[f] EXCEPT !.destroyed =
            @ + Cardinality({j \in 2..Len(q) : q[j] = f})]]

\* ~UdfManager: while(!queue->empty()) { frame = front(); pop(); delete frame; }
DeleteQueued(fr, q) ==
    [f \in 1..Len(fr) |->
        [fr[f] EXCEPT !.destroyed =
            @ + Cardinality({j \in 1..Len(q) : q[j] = f})]]

\* UdfManager::~UdfManager: one step of the destructor from position m.dtor.
\* this->stop() is the test and the store of UdfManager::stop(), its join and
\* its m_pool->stop() are the steps MgrJoin, MgrPoolStop and MgrPoolJoined;
\* delete m_pool ends a pool whose threads have no job.
Destruction(m) ==
    CASE m.dtor = "none" ->
            IF m.m_th # "NULL" /\ ~m.m_stop
            THEN [m EXCEPT !.m_stop = TRUE, !.stop_pc = "join", !.dtor = "stop"]
            ELSE [m EXCEPT !.stop_pc = "returned", !.dtor = "stop"]
      [] m.dtor = "stop" ->
            [m EXCEPT !.m_th = IF @ # "NULL" THEN "deleted" ELSE @,
                      !.dtor = "m_pool"]
      [] m.dtor = "m_pool" ->
            [m EXCEPT !.m_pool = "deleted", !.pool_stop = TRUE, !.dtor = "m_udfs"]
      [] m.dtor = "m_udfs" ->
            [m EXCEPT !.m_udfs = "deleted", !.dtor = "inq"]
      [] m.dtor = "inq" ->
            [m EXCEPT !.fr = DeleteQueued(m.fr, m.inq), !.inq = <<>>,
                      !.dtor = "outq"]
      [] m.dtor = "outq" ->
            [m EXCEPT !.fr = DeleteQueued(m.fr, m.outq), !.outq = <<>>,
                      !.dtor = "done"]
      [] OTHER -> m

\* delete manager, by a caller who is not inside start() or stop(): the
\* destructor goes on when its stop() has returned, and delete m_pool returns
\* when the pool's threads are over
Destructor ==
    /\ Running /\ mgr.dtor # "done" /\ mgr.stop_pc \in {"none", "returned"}
    /\ mgr.dtor = "m_pool" => \A w \in 1..MaxWorkers : mgr.wk[w].st = "idle"
    /\ mgr' = Destruction(mgr)
    /\ UNCHANGED frameVars

\* A manager without output encoding, with everything its caller and its
\* threads can do, to the end of its destructor
InitDtor ==
    /\ objs = <<>>
    /\ frames = <<>>
    /\ env = NoEnv
    /\ crashed = ""
    /\ ub = FALSE
    /\ exc = ""
    /\ ret = ""
    /\ lastOp = NoOp
    /\ nops = 0
    /\ snap = NoSnap
    /\ wire = NoEnv
    /\ mgr = MgrNew(<<"none", 0>>, <<"none", 0>>)

NextDtor ==
    \/ NextMgr
    \/ Destructor

SpecDtor == InitDtor /\ [][NextDtor]_vars

\* C25: the destructor of a UdfManager, started or not, stopped or not, first
\* stops the dispatch thread and the pool; it releases the UDF handles when no
\* worker can call process() any more; then it destroys once every frame
\* still in the input queue and every frame still in the output queue, and
\* both queues are empty when they are deleted.
C25_DestructorCleanUp ==
    /\ [](/\ mgr.dtor \notin {"none", "stop"}
               => (mgr.spawned > 0
                      => mgr.m_stop /\ mgr.pc = "exited" /\ mgr.pool_stop)
          /\ mgr.m_udfs = "deleted"
               => /\ mgr.pool_stop /\ mgr.m_pool = "deleted"
                  /\ \A w \in 1..MaxWorkers : mgr.wk[w].st = "idle"
          /\ mgr.dtor \in {"inq", "outq", "done"} => mgr.m_udfs = "deleted"
          /\ mgr.dtor = "done" => mgr.inq = <<>> /\ mgr.outq = <<>>
          /\ \A f \in MgrFrames : mgr.fr[f].destroyed <= 1)
    /\ [][/\ (mgr.dtor = "inq" /\ mgr'.dtor = "outq")
              => \A f \in MgrFrames :
                     mgr'.fr[f].destroyed =
                         mgr.fr[f].destroyed + Occurrences(mgr.inq, f)
          /\ (mgr.dtor = "outq" /\ mgr'.dtor = "done")
              => \A f \in MgrFrames :
                     mgr'.fr[f].destroyed =
                         mgr.fr[f].destroyed + Occurrences(mgr.outq, f)]_vars

\* C25 witness: the destructor of a started manager is over; it destroyed a
\* frame that was waiting in the input queue and a frame that was waiting in
\* the output queue
C25_BothQueuesDrained ==
    /\ mgr.dtor = "done" /\ mgr.spawned > 0
    /\ \E f \in MgrFrames, g \in MgrFrames :
          /\ ~mgr.fr[f].popped /\ mgr.fr[f].destroyed = 1
          /\ mgr.fr[g].emitted = 1 /\ mgr.fr[g].destroyed = 1

-----------------------------------------------------------------------------
\* UDFs that raise

HandleKinds == {"raw", "native"}
Raised == {"std::exception", "const char*"}

\* RawUdfHandle::process wraps m_udf->process(frame) in try/catch of
\* std::exception and returns UDF_ERROR from the handler; NativeUdfHandle::process
\* calls m_udf->process without a handler. "throw" is an exception leaving
\* the handle's process().
process(kind, thrown) ==
    IF kind = "raw" /\ thrown = "std::exception" THEN "UDF_ERROR" ELSE "throw"

\* UdfWorker::run when the UDF raises inside handle->process(ctx->frame): an
\* UDF_ERROR goes through the switch; an exception leaves run(), which has no
\* handler, before the switch, the deletes and the push_wait. What the pool's
\* thread does with it is not in this repository: the thread goes on to free
\* the context (survives = TRUE) or the process terminates.
WorkerRaise ==
    /\ Running
    /\ \E w \in 1..MaxWorkers, kind \in HandleKinds, thrown \in Raised, survives \in BOOLEAN :
          /\ mgr.wk[w].st = "run"
          /\ LET f == mgr.wk[w].frame
                 m1 == [mgr EXCEPT !.fr[f].calls = Append(@, mgr.wk[w].i),
                                   !.fr[f].rets = Append(@, "throw")]
             IN  mgr' = IF process(kind, thrown) = "UDF_ERROR"
                        THEN WorkerProcess(mgr, w, "UDF_ERROR")
                        ELSE IF survives THEN [m1 EXCEPT !.wk[w].st = "free"]
                        ELSE [m1 EXCEPT !.terminated = TRUE]
    /\ UNCHANGED frameVars

NextRaise ==
    \/ NextPipeline
    \/ WorkerRaise

SpecRaise == InitPipeline /\ [][NextRaise]_vars

\* C26: when a UDF's process() returns UDF_ERROR or raises on a frame, the
\* frame is destroyed and not pushed to the output queue, the worker thread
\* survives and the manager goes on with the other frames.
C26_ErrorIsolation ==
    \A f \in MgrFrames :
        LET r == mgr.fr[f].rets IN
        (r # <<>> /\ r[Len(r)] \in {"UDF_ERROR", "throw"})
            => /\ mgr.fr[f].destroyed = 1 /\ mgr.fr[f].emitted = 0
               /\ ~mgr.terminated

-----------------------------------------------------------------------------
\* The chain of one frame, call by call

\* A loop that invokes the next UDF as well before the call has returned:
\* C27 does not hold of it
WorkerEnterAhead(m, w) ==
    LET f == m.wk[w].frame
        i == m.wk[w].i
    IN  [m EXCEPT !.fr[f].calls = @ \o <<i, i + 1>>, !.fr[f].by = @ \o <<w, w>>,
                  !.wk[w].st = "in"]

\* UdfWorker::run: the thread of worker w enters handle->process(ctx->frame)
\* of the UDF the loop is at
WorkerEnter(m, w) ==
    LET f == m.wk[w].frame
        i == m.wk[w].i
    IN  [m EXCEPT !.fr[f].calls = Append(@, i), !.fr[f].by = Append(@, w),
                  !.wk[w].st = "in"]

\* UdfWorker::run: process() returns rc to the thread of worker w, then the
\* switch on rc and the next turn of the loop
WorkerLeave(m, w, rc) ==
    LET f == m.wk[w].frame
        m1 == WorkerProcess([m EXCEPT !.wk[w].st = "run"], w, rc)
    IN  [m1 EXCEPT !.fr[f].calls = m.fr[f].calls]

WorkerCall ==
    /\ Running
    /\ \E w \in 1..MaxWorkers :
          /\ mgr.wk[w].st = "run"
          /\ mgr' = WorkerEnter(mgr, w)
    /\ UNCHANGED frameVars

WorkerReturn ==
    /\ Running
    /\ \E w \in 1..MaxWorkers, rc \in RetCodes :
          /\ mgr.wk[w].st = "in"
          /\ mgr' = WorkerLeave(mgr, w, rc)
    /\ UNCHANGED frameVars

\* A started manager with jpeg output encoding that nobody stops, fed with
\* frames without encoding, the calls of process() taking time
InitChain ==
    /\ objs = <<>>
    /\ frames = <<>>
    /\ env = NoEnv
    /\ crashed = ""
    /\ ub = FALSE
    /\ exc = ""
    /\ ret = ""
    /\ lastOp = NoOp
    /\ nops = 0
    /\ snap = NoSnap
    /\ wire = NoEnv
    /\ mgr = start(MgrNew(<<"jpeg", 50>>, <<"none", 0>>))

NextChain ==
    \/ PushInput
    \/ PopOutput
    \/ DispatchLoop
    \/ DispatchWait
    \/ DispatchEncode
    \/ DispatchSubmit
    \/ DispatchAssign
    \/ WorkerTake
    \/ WorkerCall
    \/ WorkerReturn
    \/ WorkerPushWait
    \/ WorkerFreeCtx

SpecChain == InitChain /\ [][NextChain]_vars

\* C27: the process() calls made on one frame never overlap: a UDF is called
\* on the frame only when the call of the UDF before it has returned; every
\* UDF is called at most once on the frame, in the order of the chain; and
\* all the calls on one frame are made by the same worker.
C27_SequentialChain ==
    \A f \in MgrFrames :
        LET F == mgr.fr[f] IN
        /\ Len(F.calls) - Len(F.rets) \in {0, 1}
        /\ F.calls = [j \in 1..Len(F.calls) |-> j]
        /\ Len(F.by) = Len(F.calls)
        /\ \A j \in 1..Len(F.by) : F.by[j] = F.by[1]
        /\ Len(F.calls) > Len(F.rets)
              => \E w \in 1..MaxWorkers :
                    /\ mgr.wk[w].frame = f /\ mgr.wk[w].st = "in"
                    /\ F.by[1] = w /\ mgr.wk[w].i = Len(F.calls)
        /\ Cardinality({w \in 1..MaxWorkers : mgr.wk[w].frame = f}) <= 1

\* C27 witness: one worker is inside the second UDF of a frame whose first
\* UDF has returned, while the other worker is inside a UDF of another frame
C27_TwoChainsAtOnce ==
    \E f \in MgrFrames, g \in MgrFrames :
        /\ f # g
        /\ mgr.fr[f].calls = <<1, 2>> /\ Len(mgr.fr[f].rets) = 1
        /\ Len(mgr.fr[g].calls) = Len(mgr.fr[g].rets) + 1
        /\ mgr.fr[f].by[1] # mgr.fr[g].by[1]

-----------------------------------------------------------------------------
\* The threads that hold a frame

\* The dispatch thread has the frame between the pop and the submit
DispatchHolds(f) == mgr.cur = f /\ mgr.pc \in {"popped", "submit"}

\* A worker has the frame from the start of its job to the push or the delete
WorkerHolds(w, f) == mgr.wk[w].frame = f /\ mgr.wk[w].st \in {"run", "in", "push"}

Queued(f) == Occurrences(mgr.inq, f) + Occurrences(mgr.jobs, f) + Occurrences(mgr.outq, f)

\* C28: a frame is in the hands of at most one thread at a time, the dispatch
\* thread between pop and submit, then one worker; a thread has no frame that
\* is in a queue or destroyed; and every access to the frame (its encoding, a
\* process() call, its push, its delete) is made by the thread that has it, so
\* that the dispatch thread does not touch a frame it has submitted nor a
\* worker a frame it has pushed or destroyed.
C28_ExclusiveOwnership ==
    /\ [](\A f \in MgrFrames :
             LET holders == (IF DispatchHolds(f) THEN 1 ELSE 0)
                              + Cardinality({w \in 1..MaxWorkers : WorkerHolds(w, f)})
             IN  /\ holders <= 1
                 /\ holders = 1 => (Queued(f) = 0 /\ mgr.fr[f].destroyed = 0)
                 /\ Queued(f) <= 1)
    /\ [][\A f \in MgrFrames :
             LET F == mgr.fr[f]
                 G == mgr'.fr[f]
             IN  /\ (G.m_encode_type # F.m_encode_type
                        \/ G.m_encode_level # F.m_encode_level)
                       => DispatchHolds(f)
                 /\ (Len(G.calls) > Len(F.calls) \/ Len(G.rets) > Len(F.rets)
                        \/ G.emitted # F.emitted \/ G.destroyed # F.destroyed)
                       => \E w \in 1..MaxWorkers :
                             WorkerHolds(w, f) /\ mgr'.wk[w] # mgr.wk[w]]_vars

\* C28 witness: a worker is inside process() on the frame the dispatch thread
\* has just submitted and whose handle it has not stored yet, and the frame
\* before it is in the output queue
C28_WorkerStartedBeforeAssign ==
    /\ mgr.pc = "assign"
    /\ \E w \in 1..MaxWorkers : WorkerHolds(w, mgr.cur) /\ mgr.wk[w].st = "in"
    /\ mgr.outq # <<>>

-----------------------------------------------------------------------------
\* PythonUdfHandle::process

\* What a call meets: the number of planes of the frame; the code call_udf
\* returns; whether a Python error is set afterwards (the UDF raised); the
\* output object (left at Py_None, the input object, a new object) and the
\* number of dimensions of a new array; and a C++ exception thrown on the way
\* (by an accessor of the frame or get_dimensions, by PyList_New failing, by
\* frame->set_data).
UdfOutcomes ==
    {u \in [planes : {1, 2}, code : RetCodes, err : BOOLEAN,
            out : {"none", "same", "new"}, ndim : {2, 3},
            fault : {"", "get", "list", "set_data"}] :
        /\ u.code = "UDF_FRAME_MODIFIED" => u.out # "none"
        /\ u.out # "new" => u.ndim = 3
        /\ u.fault = "list" => u.planes > 1}

\* The result of a call: the code returned or the exception thrown, and the
\* acquisitions of the lock (PyGILState_Ensure) not yet released on exit
PyReturn(rc) == [ret |-> rc, exc |-> "", gil |-> 0]
PyThrow(msg) == [ret |-> "", exc |-> msg, gil |-> 1]

\* PythonUdfHandle::process of src/UDFLoader: PyGILState_Ensure, the array or
\* the list of arrays, call_udf, PyErr_Occurred, the output, Py_DECREF,
\* PyGILState_Release
python_process(u) ==
    IF u.planes = 1
    THEN IF u.fault = "get" THEN PyThrow("accessor")
         ELSE IF u.err THEN PyReturn("UDF_ERROR")
         ELSE IF u.code = "UDF_FRAME_MODIFIED" /\ u.out # "same"
         THEN IF u.ndim # 3 THEN PyReturn("UDF_ERROR")
              ELSE IF u.fault = "set_data" THEN PyThrow("set_data")
              ELSE PyReturn("UDF_OK")
         ELSE IF u.out = "same" THEN PyReturn("UDF_OK")
         ELSE PyReturn(u.code)
    ELSE IF u.fault = "get" THEN PyThrow("get_dimensions")
         ELSE IF u.fault = "list" THEN PyThrow("Error creating Python list object")
         ELSE IF u.err THEN PyReturn("UDF_ERROR")
         ELSE IF u.code = "UDF_FRAME_MODIFIED"
         THEN IF u.ndim # 3 THEN PyReturn("UDF_ERROR")
              ELSE IF u.fault = "set_data" THEN PyThrow("set_data")
              ELSE PyReturn("UDF_OK")
         ELSE IF u.out = "same" THEN PyReturn("UDF_OK")
         ELSE PyReturn(u.code)

\* PythonUdfHandle::process of src/libs/UDFLoader: one array, call_udf,
\* Py_DECREF, and a return of UDF_ERROR that comes before PyGILState_Release
python_process_eis(u) ==
    IF u.fault = "get" THEN PyThrow("accessor")
    ELSE IF u.err THEN [PyReturn("UDF_ERROR") EXCEPT !.gil = 1]
    ELSE PyReturn(u.code)

\* A loaded handle of either library, and the lock as the calling thread
\* holds it: not at all
InitPy ==
    /\ objs = <<>>
    /\ frames = <<>>
    /\ env = NoEnv
    /\ crashed = ""
    /\ ub = FALSE
    /\ exc = ""
    /\ ret = ""
    /\ lastOp = NoOp
    /\ nops = 0
    /\ snap = NoSnap
    /\ wire = NoEnv
    /\ mgr \in {[lib |-> l, called |-> FALSE, gil |-> 0] : l \in {"eii", "eis"}}

\* handle->process(frame) by a thread that does not hold the lock
PyProcess ==
    /\ ~mgr.called
    /\ \E u \in UdfOutcomes :
          /\ mgr.lib = "eis" => (u.planes = 1 /\ u.out = "none" /\ u.fault \in {"", "get"})
          /\ LET r == IF mgr.lib = "eii" THEN python_process(u)
                      ELSE python_process_eis(u)
             IN  /\ mgr' = [lib |-> mgr.lib, called |-> TRUE, gil |-> r.gil, u |-> u]
                 /\ ret' = r.ret
                 /\ exc' = r.exc
    /\ UNCHANGED <<objs, frames, env, crashed, ub, lastOp, nops, snap, wire>>

SpecPy == InitPy /\ [][PyProcess]_vars

\* C29: every exit of PythonUdfHandle::process, by a return of any code or by
\* an exception, releases the acquisition of the global lock the call made:
\* the calling thread does not leave the function holding the lock.
C29_LockReleasedOnExit ==
    mgr.called => mgr.gil = 0

\* C30: PythonUdfHandle::process returns UDF_ERROR when the UDF raised,
\* UDF_DROP_FRAME when the UDF signalled a drop, UDF_OK when it returned UDF_OK
\* or UDF_FRAME_MODIFIED; a drop or an error does not become UDF_OK, whatever
\* the output object is, for frames of one plane and of several.
C30_ReturnCodes ==
    (mgr.called /\ mgr.lib = "eii" /\ exc = "")
        => LET u == mgr.u IN
           /\ u.err => ret = "UDF_ERROR"
           /\ (~u.err /\ u.code \in {"UDF_DROP_FRAME", "UDF_ERROR"}) => ret = u.code
           /\ (~u.err /\ u.code \in GoodCodes /\ u.ndim = 3) => ret = "UDF_OK"


-----------------------------------------------------------------------------
\* NativeUdfHandle::process

\* What the native UDF does with the cv::Mat it is given: it leaves the
\* matrix on the buffer of the frame ("same") or makes it allocate a buffer
\* of its own ("new"), and returns a code
NativeOuts == {"same", "new"}

\* NativeUdfHandle::process(frame): a cv::Mat header over plane 0, the UDF's
\* process(), delete of the cv::Mat (which frees a buffer the matrix itself
\* allocated), and the UDF's code returned as it is
native_process(W, f, rc, out) ==
    LET mat_frame == NewId(W)
        W1 == Alloc(W, "cvMat", 0)
        W2 == IF out = "new" THEN Alloc(W1, "cvMat data", 0) ELSE W1
        W3 == IF out = "new" THEN Release(W2, NewId(W1)) ELSE W2
    IN  Return(Release(W3, mat_frame), rc)

\* handle->process(frame) on a frame that was not serialized
NativeProcess ==
    /\ Intact /\ nops < MaxOps /\ ~frames[Cur].m_serialized
    /\ \E rc \in RetCodes, out \in NativeOuts :
          /\ Commit(native_process(World, Cur, rc, out))
          /\ lastOp' = [op |-> "process", rc |-> rc, out |-> out]
    /\ snap' = Snapshot(Cur)
    /\ nops' = nops + 1
    /\ UNCHANGED <<wire, mgr>>

NextNative ==
    \/ NewFrame
    \/ Receive
    \/ Deserialize
    \/ NativeProcess
    \/ Delete

SpecNative == Init /\ [][NextNative]_vars

\* C31: when the native UDF's output shares the input buffer,
\* NativeUdfHandle::process returns UDF_OK, plane 0 is not replaced and the
\* releaser of the input buffer is not invoked; when the output is a distinct
\* buffer, plane 0 is replaced through set_data with a releaser that frees the
\* UDF's new buffer and process returns UDF_FRAME_MODIFIED.
C31_NativeBufferIdentity ==
    (lastOp.op = "process" /\ lastOp.rc \in GoodCodes)
        => /\ lastOp.out = "same"
                => /\ ret = "UDF_OK"
                   /\ get_data(frames[Cur], 0) = snap.planes[1].data
                   /\ objs[1].freed = 0
           /\ lastOp.out = "new"
                => /\ ret = "UDF_FRAME_MODIFIED"
                   /\ get_data(frames[Cur], 0) # snap.planes[1].data
                   /\ frames[Cur].m_frame # ObjRef(1)


-----------------------------------------------------------------------------
\* The order of the frames through the manager

\* The workers of new ThreadPool(max_workers, max_jobs), for max_workers = n:
\* the pool has n threads and no more
PoolOf(n) ==
    [w \in 1..MaxWorkers |->
        IF w <= n THEN IdleWorker ELSE [IdleWorker EXCEPT !.st = "absent"]]

max_workers == Cardinality({w \in 1..MaxWorkers : mgr.wk[w].st # "absent"})

\* A started manager that leaves the encoding alone, over a pool of one
\* worker or of several
InitOrder ==
    /\ objs = <<>>
    /\ frames = <<>>
    /\ env = NoEnv
    /\ crashed = ""
    /\ ub = FALSE
    /\ exc = ""
    /\ ret = ""
    /\ lastOp = NoOp
    /\ nops = 0
    /\ snap = NoSnap
    /\ wire = NoEnv
    /\ mgr \in {[start(MgrNew(<<"none", 0>>, <<"none", 0>>)) EXCEPT
                    !.wk = PoolOf(n)] : n \in 1..MaxWorkers}

SpecOrder == InitOrder /\ [][NextPipeline]_vars

\* The dispatch thread is done with frame f: it went through the submit and
\* the store of the job handle
Dispatched(f) == mgr.fr[f].popped /\ mgr.cur # f

C32_OvertakenWithTwoWorkers ==
    /\ max_workers = 2
    /\ Len(mgr.fr) = 2
    /\ mgr.fr[2].emitted = 1 /\ mgr.fr[1].emitted = 0
    /\ \E w \in 1..MaxWorkers : mgr.wk[w].frame = 1 /\ mgr.wk[w].st = "push"


-----------------------------------------------------------------------------
\* Properties of serialize(), set_encoding() and set_data() plane by plane

\* serialize() has just returned the envelope of a frame that was constructed
\* from buffers, not from an envelope
SerializedConstructed == Serialized /\ Cur = 1 /\ ~wire.alive

\* C33: serialize() encodes plane i if and only if plane i's own encode type
\* is not None, whatever the types of the other planes, with plane i's own
\* width, height, channels and level; the blob of plane i has the length of
\* the encoded bytes when the plane is encoded and width*height*channels of
\* plane i otherwise.
C33_PerPlaneEncoding ==
    SerializedConstructed =>
        \A i \in 1..snap.n :
            LET P == snap.planes[i]
                b == env.blobs[i]
                lvl == get_encode_level(frames[Cur], env, i - 1)
            IN  P.ty.t = "str" =>
                    /\ (b.data.pix.fmt # "raw") <=> (P.ty.s # "none")
                    /\ P.ty.s # "none" =>
                           /\ b.data.pix = Encode(P.ty.s, lvl.i, P.data.pix,
                                                  P.w.i, P.h.i, P.c.i)
                           /\ b.len = b.data.pix.n
                    /\ P.ty.s = "none" => b.len = P.w.i * P.h.i * P.c.i


-----------------------------------------------------------------------------
\* serialize() that fails part way, and the calls made on the frame afterwards

\* What fails in the loop over the planes of a constructed frame:
\* msgbus_msg_envelope_new_blob returns NULL, or msgbus_msg_envelope_put of
\* the blob does not return MSG_SUCCESS
SerializeFaults == {"new_blob", "put"}

\* The loop of serialize() over the planes from plane i, in which fault
\* happens at plane at: a throw for the blob, a return of NULL for the put
\* (the blob element is destroyed with owned = false, the bytes stay).
\* m_serialized is stored after the loop only.
RECURSIVE SerializeFaultFrom(_, _, _, _, _)
SerializeFaultFrom(W, f, i, at, fault) ==
    LET F == W.frames[f] IN
    IF i >= F.m_num_frames
    THEN [Return(W, "m_meta_data") EXCEPT !.frames[f].m_serialized = TRUE]
    ELSE IF i > 0 /\ W.env.afT = "none"
    THEN [Throw(W, "additional_frames missing") EXCEPT !.ub = TRUE]
    ELSE IF i > 0 /\ SerializeArrayError(W.env, i) # ""
    THEN Throw(W, SerializeArrayError(W.env, i))
    ELSE IF i = at /\ fault = "new_blob"
    THEN Throw(W, "Failed to initialize blob for frame data")
    ELSE IF i = at /\ fault = "put"
    THEN Return(W, "NULL")
    ELSE SerializeFaultFrom(
             [W EXCEPT !.env = EnvPutBlob(W.env, SerializeBlob(W, f, i))],
             f, i + 1, at, fault)

\* Frame::serialize() of a constructed frame with that fault
serialize_fault(W, f, at, fault) ==
    LET F == W.frames[f] IN
    IF F.m_serialized THEN Return(W, "NULL")
    ELSE LET W1 == IF F.m_encode_type # "none" THEN encode_frame(W, f)
                   ELSE Return(W, "void")
         IN  IF W1.crashed # "" \/ W1.exc # "" THEN W1
             ELSE SerializeFaultFrom(W1, f, 0, at, fault)

\* frame->serialize() on a constructed frame of several planes, in which the
\* blob of a plane after the first cannot be made or cannot be put
SerializeFault ==
    /\ Intact /\ env.alive
    /\ ~frames[Cur].m_msg /\ ~frames[Cur].m_serialized
    /\ env.blobs = <<>>
    /\ \E at \in 1..(frames[Cur].m_num_frames - 1), fault \in SerializeFaults :
          /\ Outcome(serialize_fault(World, Cur, at, fault))
          /\ lastOp' = [op |-> "serialize", at |-> at, fault |-> fault]
    /\ snap' = Snapshot(Cur)
    /\ UNCHANGED <<nops, wire, mgr>>

\* serialize() has just failed with the blobs of the planes before plane at
\* attached to the envelope
FailedAfterAttach ==
    /\ Usable /\ lastOp.op = "serialize" /\ DOMAIN lastOp # {"op"}
    /\ ret \in {"throw", "NULL"}
    /\ Len(env.blobs) >= 1

AfterCalls == {"get_data", "get_meta_data", "set_data", "serialize"}

\* One more call on the frame whose serialize() failed: TRUE in ok when the
\* call did what it does on a usable frame (a pointer that is not NULL, no
\* exception)
AfterFailure ==
    /\ FailedAfterAttach
    /\ \E call \in AfterCalls :
          LET F == frames[Cur]
              mat == NewId(World)
              W == CASE call = "set_data" ->
                          CallerCleanup(
                              set_data(Alloc(World, "cvMat", 0), Cur,
                                       ObjRef(mat), 3, 1, 3,
                                       [own |-> mat, pix |-> RawPix(10 + mat, 3, 1, 3)],
                                       "user", 0, 0),
                              Cur, mat)
                     [] call = "serialize" -> serialize(World, Cur, "none")
                     [] call = "get_data" ->
                          Return(World, IF get_data(F, 0) = NullData
                                        THEN "NULL" ELSE "m_data[0]")
                     [] OTHER -> Return(World, get_meta_data(F))
          IN  /\ Outcome(W)
              /\ lastOp' = [op |-> "after", call |-> call,
                            ok |-> W.ret \notin {"throw", "NULL"}]
    /\ UNCHANGED <<nops, snap, wire, mgr>>

NextFailed ==
    \/ NewFrame
    \/ SetMultiFrameParameters
    \/ SetEncoding
    \/ PutKey
    \/ SerializeFault
    \/ AfterFailure
    \/ Delete

SpecFailed == Init /\ [][NextFailed]_vars

\* C34: when serialize() fails after at least one blob has been attached to
\* the envelope (a later blob cannot be allocated or put), every later
\* get_data, get_meta_data, set_data and serialize call on the frame fails.
C34_FailedSerializeIsTerminal ==
    (lastOp.op = "after" /\ crashed = "") => ~lastOp.ok


\* C35: once a Frame has been constructed from an envelope, the envelope's
\* own blob reference is detached (env->blob is NULL) and the envelope is
\* still the frame's metadata store: every key it had, the custom ones
\* included, is read through get_meta_data() with the value it had.
C35_BlobDetachedOnDeserialize ==
    (lastOp.op = "Frame(msg)" /\ ret = "Frame" /\ crashed = "") =>
        /\ env.blobT = "none"
        /\ get_meta_data(frames[Cur]) = "m_meta_data"
        /\ \A k \in {"img_handle", "ADDED"} : env.kv[k] = wire.kv[k]


-----------------------------------------------------------------------------
\* PythonUdfHandle::process: what becomes of the output of the UDF

MaxNdim == 5

\* What the UDF hands back: its code, the output object (the input object or
\* a new one: an array for a frame of one plane, a list of one array per plane
\* for a frame of several) and the number of dimensions of each array
PyOutputs ==
    {u \in [planes : {1, 2}, code : RetCodes, out : {"same", "new"},
            ndims : UNION {[1..n -> 1..MaxNdim] : n \in 1..2}] :
        /\ Len(u.ndims) = u.planes
        /\ u.out = "same" => \A i \in 1..u.planes : u.ndims[i] = 3}

\* The planes, from 0, before the first array whose PyArray_NDIM is not 3
Before(ndims) ==
    {i \in 0..(Len(ndims) - 1) : \A j \in 1..(i + 1) : ndims[j] = 3}

\* PythonUdfHandle::process after call_udf returned without a Python error:
\* the code returned and the planes frame->set_data was called on. For a
\* frame of several planes the arrays of the list are checked and set one
\* after the other in one loop, whatever object the list is.
python_process_output(u) ==
    IF u.planes = 1
    THEN IF u.code = "UDF_FRAME_MODIFIED" /\ u.out # "same"
         THEN IF u.ndims[1] # 3 THEN [ret |-> "UDF_ERROR", set |-> {}]
              ELSE [ret |-> "UDF_OK", set |-> {0}]
         ELSE IF u.out = "same" THEN [ret |-> "UDF_OK", set |-> {}]
         ELSE [ret |-> u.code, set |-> {}]
    ELSE IF u.code = "UDF_FRAME_MODIFIED"
         THEN IF \E i \in 1..u.planes : u.ndims[i] # 3
              THEN [ret |-> "UDF_ERROR", set |-> Before(u.ndims)]
              ELSE [ret |-> "UDF_OK", set |-> 0..(u.planes - 1)]
         ELSE IF u.out = "same" THEN [ret |-> "UDF_OK", set |-> {}]
         ELSE [ret |-> u.code, set |-> {}]

InitPyOutput ==
    /\ objs = <<>>
    /\ frames = <<>>
    /\ env = NoEnv
    /\ crashed = ""
    /\ ub = FALSE
    /\ exc = ""
    /\ ret = ""
    /\ lastOp = NoOp
    /\ nops = 0
    /\ snap = NoSnap
    /\ wire = NoEnv
    /\ mgr = [called |-> FALSE]

\* handle->process(frame) with a UDF that returns without raising
PyProcessOutput ==
    /\ ~mgr.called
    /\ \E u \in PyOutputs :
          LET r == python_process_output(u) IN
          /\ mgr' = [called |-> TRUE, u |-> u, set |-> r.set]
          /\ ret' = r.ret
    /\ UNCHANGED <<objs, frames, env, crashed, ub, exc, lastOp, nops, snap, wire>>

SpecPyOutput == InitPyOutput /\ [][PyProcessOutput]_vars

\* C36: when a scripted UDF returns UDF_FRAME_MODIFIED with a new array, or
\* with a list containing an array, whose number of dimensions is not 3,
\* PythonUdfHandle::process returns UDF_ERROR and set_data has been applied
\* to none of the planes of the frame.
C36_ScriptedDimensionCheck ==
    (/\ mgr.called
     /\ mgr.u.code = "UDF_FRAME_MODIFIED" /\ mgr.u.out = "new"
     /\ \E i \in 1..mgr.u.planes : mgr.u.ndims[i] # 3)
        => (ret = "UDF_ERROR" /\ mgr.set = {})


-----------------------------------------------------------------------------
\* The per-plane parameters of a frame of up to three planes

MaxParamPlanes == 3

\* new Frame(...) of 1..MaxParamPlanes planes
NewFrameOfPlanes ==
    /\ frames = <<>> /\ objs = <<>> /\ ~env.alive
    /\ \E d \in Dims, n \in 1..MaxParamPlanes, ec \in EncChoices,
          fr \in {"user", "NULL"} :
          LET W1 == Alloc(World, "TestFrame", 0 - 1)
          IN  Commit(Construct(W1, ObjRef(1), d[1], d[2], d[3],
                               IngestData(1, n, d), fr, n, ec[1], ec[2]))
    /\ lastOp' = [op |-> "Frame"]
    /\ UNCHANGED <<nops, snap, wire, mgr>>

\* The width the caller gives plane index: one value per plane, so that the
\* object of a plane is told from the object of another
ParamWidth(index) == 3 + index

\* frame->set_multi_frame_parameters(index, ...) for the planes 1, 2, ... in
\* turn; nops is the number of planes whose parameters the caller has set
SetParamsOfNextPlane ==
    /\ Intact /\ ~frames[Cur].m_serialized
    /\ nops < frames[Cur].m_num_frames - 1
    /\ \E ec \in PlaneEncChoices :
          Commit(set_multi_frame_parameters(World, Cur, nops + 1,
                     ParamWidth(nops + 1), 1, 3, ec[1], ec[2]))
    /\ lastOp' = [op |-> "set_multi_frame_parameters"]
    /\ nops' = nops + 1
    /\ snap' = Snapshot(Cur)
    /\ UNCHANGED <<wire, mgr>>

NextParams ==
    \/ NewFrameOfPlanes
    \/ SetParamsOfNextPlane
    \/ Serialize
    \/ DestroyEnvelope
    \/ Delete

SpecParams == Init /\ [][NextParams]_vars

\* C37: an unserialized frame of N planes whose per-plane parameters have
\* been set for the planes 1..N-1 has no additional_frames key when N = 1 and
\* otherwise an additional_frames array of exactly N-1 objects, the (i-1)-th
\* of which describes plane i; setting the parameters of one more plane
\* appends one object and keeps the ones that were there.
C37_AdditionalFramesLength ==
    /\ [](\A f \in AllFrames :
            (/\ frames[f].deleted = 0 /\ ~frames[f].m_serialized
             /\ nops = frames[f].m_num_frames - 1)
                => IF frames[f].m_num_frames = 1 THEN env.afT = "none"
                   ELSE /\ env.afT = "array"
                        /\ Len(env.af) = frames[f].m_num_frames - 1
                        /\ \A i \in 1..Len(env.af) :
                               env.af[i]["width"] = IntV(ParamWidth(i)))
    /\ [][lastOp'.op = "set_multi_frame_parameters"
            => (/\ Len(env'.af) = Len(env.af) + 1
                /\ SubSeq(env'.af, 1, Len(env.af)) = env.af)]_vars


\* C38: a successful set_encoding(type, level) leaves the data pointer, the
\* pixel bytes, the releaser, the width, the height and the channels of every
\* plane as they were (nothing is encoded, allocated or released before
\* serialize); afterwards the envelope has encoding_type and encoding_level
\* equal to (type, level) when type is JPEG or PNG and neither key when type
\* is None.
C38_SetEncodingMetadataOnly ==
    [][(lastOp'.op = "set_encoding" /\ ret' # "throw") =>
          /\ frames'[Cur].m_data = frames[Cur].m_data
          /\ frames'[Cur].m_frame = frames[Cur].m_frame
          /\ frames'[Cur].m_free_frame = frames[Cur].m_free_frame
          /\ frames'[Cur].m_width = frames[Cur].m_width
          /\ frames'[Cur].m_height = frames[Cur].m_height
          /\ frames'[Cur].m_channels = frames[Cur].m_channels
          /\ objs' = objs
          /\ env'.af = env.af /\ env'.blobs = env.blobs
          /\ \A k \in {"width", "height", "channels"} : env'.kv[k] = env.kv[k]
          /\ IF lastOp'.ty \in {"jpeg", "png"}
             THEN /\ env'.kv["encoding_type"] = StrV(lastOp'.ty)
                  /\ env'.kv["encoding_level"] = IntV(lastOp'.lvl)
             ELSE /\ ~EnvHas(env', "encoding_type")
                  /\ ~EnvHas(env', "encoding_level")]_vars

\* set_encoding(JPEG, 100) has returned on a frame of two planes that was
\* constructed without encoding
C38_EncodingSetOnTwoPlanes ==
    /\ lastOp.op = "set_encoding" /\ ret = "void"
    /\ lastOp.ty = "jpeg" /\ lastOp.lvl = 100
    /\ frames[Cur].m_num_frames = 2
    /\ frames[Cur].m_encode_type = "jpeg"
    /\ \A i \in 1..2 : frames[Cur].m_data[i].pix.fmt = "raw"


\* C39: UdfManager::run never reads or writes the UdfWorker context after the
\* pool has run the job and called free_udf_worker on it: in every
\* interleaving of the dispatch thread's ctx->handle = job_handle with the
\* worker's run-then-free the context is alive when it is written, and the
\* job handle is deleted exactly once.
C39_NoUseOfFreedContext ==
    \A f \in MgrFrames :
        /\ ~mgr.fr[f].uaf
        /\ mgr.fr[f].handle_deleted <= 1
        /\ (mgr.fr[f].ctx = "freed" /\ mgr.cur # f)
               => mgr.fr[f].handle_deleted = 1


\* C40: a successful set_data(i, ...) on a frame of N planes changes plane i
\* only: for every j # i the data pointer, the pixel bytes, the width, the
\* height, the channels and the encoding of plane j are what they were, the
\* releaser of plane j's buffer has not been invoked, and the custom keys of
\* the envelope are unchanged.
C40_SetDataTouchesOnePlane ==
    [][(/\ lastOp'.op = "set_data" /\ ret' # "throw" /\ crashed' = ""
        /\ lastOp'.index \in 0..(frames[Cur].m_num_frames - 1)) =>
          /\ \A j \in 0..(frames[Cur].m_num_frames - 1) :
                 j # lastOp'.index =>
                     /\ Planes(frames'[Cur], env')[j + 1]
                            = Planes(frames[Cur], env)[j + 1]
                     /\ objs'[get_data(frames[Cur], j).own].freed
                            = objs[get_data(frames[Cur], j).own].freed
          /\ \A k \in {"img_handle", "ADDED"} : env'.kv[k] = env.kv[k]]_vars

=============================================================================
